---- MODULE Spec2Model ----
(***************************************************************************)
(* Incident status lifecycle and team assignment of the sewage incident    *)
(* management backend.  The database is the one sequelize.sync() creates   *)
(* from the models: no triggers, no transactions, no row locks.            *)
(*                                                                         *)
(* Environment fixed by the model: every user is active, every team has    *)
(* one active member, team names carry no zone / shift / capability        *)
(* keyword, and the modelled time span stays below the 24 hours after      *)
(* which validateSingleTeam reports a team as inactive.                    *)
(***************************************************************************)
EXTENDS Integers, Sequences, FiniteSets, Bags, TLC

VARIABLES
    incidents,   \* incidents table: id -> row, or NoRow before the report
    jobCards,    \* job_cards table: a bag of rows
    teams,       \* teams table: id -> row
    now,         \* wall clock, milliseconds
    response,    \* what the last finished request or service call returned
    attempts,    \* assignment calls in flight: position and values read so far
    history      \* what a property remembers of the past; no operation reads it

vars == <<incidents, jobCards, teams, now, response, attempts, history>>

----------------------------------------------------------------------------
(* Bounds of the model *)

MaxTicks == 1          \* clock steps taken
MaxCapacityInput == 1  \* largest max_capacity a team leader submits
MaxCapacityCount == 2  \* current_capacity is not raised above this
MaxBulk == 2           \* longest incidentIds list of a bulk request
MaxJobCards == 3       \* no job card is created beyond this many rows
MaxWalk == 8           \* longest chain of accepted status transitions followed

----------------------------------------------------------------------------
(* Identities *)

Incidents == {"i1", "i2"}
Teams == {"t1", "t2"}
Managers == {"m1", "m2"}

Null == "null"     \* a null id
NullTime == 0 - 1  \* a null timestamp
NoRow == [status |-> "absent", assigned_team_id |-> Null, assigned_at |-> NullTime]

manager_id == [t \in Teams |-> "m1"]
memberCount == [t \in Teams |-> 1]
\* the teams whose member has the team_leader role
LedTeams == {"t1"}
priority_level == [t \in Teams |-> 1]
DefaultMaxCapacity == 5
HourMs == 1000 * 60 * 60

IncidentStatusEnum ==
    {"Not Started", "In Progress", "Completed", "Cancelled", "verified", "escalated"}

\* every status string the services may be handed
AllStatuses == IncidentStatusEnum \cup {"assigned"}

----------------------------------------------------------------------------
(* StatusValidationService: the transition table *)

\* the table with one more entry: a Completed incident may be re-verified
statusTransitionsReopened(currentStatus) ==
    CASE currentStatus = "Not Started" -> {"verified"}
      [] currentStatus = "verified"    -> {"In Progress", "Completed", "Cancelled"}
      [] currentStatus = "In Progress" -> {"Completed", "Cancelled"}
      [] currentStatus = "Completed"   -> {"verified"}
      [] currentStatus = "Cancelled"   -> {}
      [] OTHER                         -> {}

statusTransitions(currentStatus) ==
    CASE currentStatus = "Not Started" -> {"verified"}
      [] currentStatus = "verified"    -> {"In Progress", "Completed", "Cancelled"}
      [] currentStatus = "In Progress" -> {"Completed", "Cancelled"}
      [] currentStatus = "Completed"   -> {}
      [] currentStatus = "Cancelled"   -> {}
      [] OTHER                         -> {}

validateStatusTransition(currentStatus, newStatus) ==
    IF newStatus \notin statusTransitions(currentStatus)
    THEN [valid |-> FALSE, code |-> "INVALID_TRANSITION"]
    ELSE [valid |-> TRUE, code |-> "OK"]

statusesRequiringTeamAssignment == {"assigned", "In Progress", "Completed"}

requiresTeamAssignment(status) == status \in statusesRequiringTeamAssignment

statusesRequiringManagerAuth ==
    {"verified", "assigned", "In Progress", "Completed", "Cancelled"}

requiresManagerAuthorization(status) == status \in statusesRequiringManagerAuth

\* the table below with two hours asked of a completion
minimumTimeSinceAssignmentTwoHours(status) ==
    CASE status = "In Progress" -> 0
      [] status = "Completed"   -> 120
      [] OTHER                  -> 0

\* automatedProgressionRequirements[status].minimumTimeSinceAssignment, minutes
minimumTimeSinceAssignment(status) ==
    CASE status = "In Progress" -> 0
      [] status = "Completed"   -> 60
      [] OTHER                  -> 0

hasAutomatedRequirements(status) == status \in {"In Progress", "Completed"}

----------------------------------------------------------------------------
(* Rows and queries *)

NoCard == [incident_id |-> Null, team_id |-> Null, status |-> Null, progress |-> 0]

\* JobCard.create: a not_started card; progress counts its worker_progress rows
NewCard(i, t, n) ==
    [incident_id |-> i, team_id |-> t, status |-> "not_started", progress |-> n]

CardsOf(i) == {jc \in BagToSet(jobCards) : jc.incident_id = i}

\* the job cards of incident i joined to a team that manager m owns
CardsOfManager(i, m) == {jc \in CardsOf(i) : manager_id[jc.team_id] = m}

\* incident.JobCards[0]: the rows come back in no stated order
FirstCard(cards) == IF cards = {} THEN {NoCard} ELSE cards

\* JobCard.count({team_id, status != 'completed'})
activeJobCount(bag, t) ==
    LET kept == {jc \in BagToSet(bag) : jc.team_id = t /\ jc.status # "completed"}
    IN  BagCardinality([jc \in kept |-> bag[jc]])

userActive(u) == TRUE

Exists(i) == incidents[i] # NoRow

----------------------------------------------------------------------------
(* StatusValidationService: the checks of validateIncidentStatusChange.    *)
(* inc is the incidents row, jc0 its JobCards[0] (NoCard when it has none) *)

Ok == [valid |-> TRUE, code |-> "OK"]
Fail(c) == [valid |-> FALSE, code |-> c]

validateTeamAssignment(inc, targetStatus, jc0) ==
    LET tid == inc.assigned_team_id
    IN  IF tid = Null THEN Fail("TEAM_ASSIGNMENT_REQUIRED")
        ELSE IF tid \notin Teams THEN Fail("TEAM_NOT_FOUND")
        ELSE IF ~teams[tid].is_available THEN Fail("TEAM_UNAVAILABLE")
        ELSE IF teams[tid].current_capacity >= teams[tid].max_capacity
             THEN Fail("TEAM_AT_CAPACITY")
        ELSE IF memberCount[tid] = 0 THEN Fail("TEAM_NO_ACTIVE_MEMBERS")
        ELSE IF jc0 = NoCard THEN Fail("JOB_CARD_REQUIRED")
        ELSE IF jc0.team_id # tid THEN Fail("JOB_CARD_TEAM_MISMATCH")
        ELSE IF /\ targetStatus \in {"In Progress", "Completed"}
                /\ ~userActive(manager_id[tid])
             THEN Fail("TEAM_MANAGER_INVALID")
        ELSE Ok

\* the caller is a manager (the router admits no other role)
validateManagerAuthorization(jc0, userId) ==
    IF jc0 # NoCard /\ manager_id[jc0.team_id] # userId
    THEN Fail("MANAGER_NOT_TEAM_OWNER")
    ELSE Ok

\* new Date(null) is the epoch
DateOf(stamp) == IF stamp = NullTime THEN 0 ELSE stamp

validateBusinessRules(inc, newStatus) ==
    IF inc.status = "Completed" /\ newStatus # "Completed"
    THEN Fail("COMPLETED_IS_FINAL")
    ELSE IF newStatus = "In Progress" /\ inc.status # "verified"
    THEN Fail("NOT_VERIFIED")
    ELSE IF newStatus = "Completed" /\ inc.status # "In Progress"
    THEN Fail("NOT_IN_PROGRESS")
    \* hoursSinceAssigned < 1
    ELSE IF newStatus = "Completed" /\ now - DateOf(inc.assigned_at) < HourMs
    THEN Fail("COMPLETION_TOO_EARLY")
    ELSE Ok

validateAutomatedProgressionRequirements(inc, newStatus, cards) ==
    IF ~hasAutomatedRequirements(newStatus) THEN Ok
    ELSE IF \/ inc.assigned_team_id = Null
            \/ cards = {}
            \* the team of JobCards[0] always has its member in this model
            \/ /\ minimumTimeSinceAssignment(newStatus) > 0
               /\ inc.assigned_at # NullTime
               /\ now - inc.assigned_at
                     < minimumTimeSinceAssignment(newStatus) * 60 * 1000
            \/ newStatus = "Completed" /\ inc.status # "In Progress"
         THEN Fail("AUTOMATED_REQUIREMENTS_NOT_MET")
         ELSE Ok

validateDataIntegrity(inc, newStatus, jc0) ==
    IF \/ inc.status = "Completed" /\ newStatus # "Completed"
       \/ inc.assigned_team_id # Null /\ newStatus = "verified"
       \/ jc0 # NoCard /\ jc0.status = "completed" /\ newStatus # "Completed"
       \/ /\ requiresTeamAssignment(newStatus)
          /\ inc.assigned_team_id # Null
          /\ \/ inc.assigned_at = NullTime
             \/ jc0 = NoCard
             \/ jc0.team_id # inc.assigned_team_id
    THEN Fail("DATA_INTEGRITY_VIOLATION")
    ELSE Ok

\* validateIncidentStatusChange with the transition table as its only check
validateIncidentStatusChangeTableOnly(inc, newStatus, userId, cards, jc0) ==
    IF inc = NoRow THEN Fail("INCIDENT_NOT_FOUND")
    ELSE validateStatusTransition(inc.status, newStatus)

validateIncidentStatusChange(inc, newStatus, userId, cards, jc0) ==
    LET r1 == validateStatusTransition(inc.status, newStatus)
        r2 == IF requiresTeamAssignment(newStatus)
              THEN validateTeamAssignment(inc, newStatus, jc0) ELSE Ok
        r3 == IF requiresManagerAuthorization(newStatus)
              THEN validateManagerAuthorization(jc0, userId) ELSE Ok
        r4 == validateBusinessRules(inc, newStatus)
        r5 == validateAutomatedProgressionRequirements(inc, newStatus, cards)
        r6 == validateDataIntegrity(inc, newStatus, jc0)
    IN  IF inc = NoRow THEN Fail("INCIDENT_NOT_FOUND")
        ELSE IF ~r1.valid THEN r1
        ELSE IF ~r2.valid THEN r2
        ELSE IF ~r3.valid THEN r3
        ELSE IF ~r4.valid THEN r4
        ELSE IF ~r5.valid THEN r5
        ELSE r6

----------------------------------------------------------------------------
(* IntelligentAssignmentService: team views and selection *)

TeamsOf(m) == {t \in Teams : manager_id[t] = m}

\* getAvailableTeams writes the counted capacity back to every team whose
\* stored current_capacity differs
reconcile(tms, bag, m) ==
    [t \in Teams |->
        IF manager_id[t] = m /\ tms[t].current_capacity # activeJobCount(bag, t)
        THEN [tms[t] EXCEPT !.current_capacity = activeJobCount(bag, t)]
        ELSE tms[t]]

\* one element of the array getAvailableTeams returns
teamView(tms, bag, t) ==
    LET currentCapacity == activeJobCount(bag, t)
    IN  [id |-> t,
         isAvailable |-> /\ tms[t].is_available
                         /\ currentCapacity < tms[t].max_capacity
                         /\ \/ tms[t].available_from = NullTime
                            \/ now >= tms[t].available_from,
         currentCapacity |-> currentCapacity,
         maxCapacity |-> tms[t].max_capacity,
         priorityLevel |-> priority_level[t],
         memberCount |-> memberCount[t]]

getAvailableTeams(tms, bag, m) == {teamView(tms, bag, t) : t \in TeamsOf(m)}

\* validateSingleTeam; the 24 hour inactivity issue lies outside the modelled span
validateSingleTeam(team) ==
    /\ team.isAvailable
    /\ team.currentCapacity < team.maxCapacity
    /\ team.memberCount # 0

SetMax(S) == CHOOSE x \in S : \A y \in S : y <= x

\* selectBestTeam with the capacity condition of its Tier 1 filter left out
selectBestTeamAnyCapacity(availableTeams) ==
    LET eligibleTeams == {team \in availableTeams :
                             team.isAvailable /\ team.memberCount > 0}
    IN  IF eligibleTeams = {} THEN {}
        ELSE {team \in eligibleTeams :
                 \A other \in eligibleTeams :
                     (other.maxCapacity - other.currentCapacity) * team.maxCapacity
                         <= (team.maxCapacity - team.currentCapacity) * other.maxCapacity}

\* selectBestTeam: the set of teams the random tie-break may return; empty
\* when the call throws 'No eligible teams available for assignment'.
\* score = cw/max(cw) * 0.5 + uw/max(uw) * 0.3 + pw/max(pw) * 0.2 with
\* cw = max - cur, uw = 1 - cur/max = cw/max, pw = priority; the scores are
\* compared over their common denominator, in exact arithmetic; teams whose
\* exact scores are equal are all kept, whichever way the floating-point
\* scores of teams with different numbers round
selectBestTeam(availableTeams) ==
    LET eligibleTeams == {team \in availableTeams :
                             /\ team.isAvailable
                             /\ team.currentCapacity < team.maxCapacity
                             /\ team.memberCount > 0}
        cw(team) == team.maxCapacity - team.currentCapacity
        maxOf(team) == team.maxCapacity
        maxCw == SetMax({cw(team) : team \in eligibleTeams})
        maxPw == SetMax({team.priorityLevel : team \in eligibleTeams})
        \* the team of greatest utilizationWeight cw/max
        u == CHOOSE a \in eligibleTeams : \A b \in eligibleTeams :
                 cw(a) * maxOf(b) >= cw(b) * maxOf(a)
        RECURSIVE prod(_)
        prod(R) == IF R = {} THEN 1
                   ELSE LET x == CHOOSE y \in R : TRUE
                        IN  maxOf(x) * prod(R \ {x})
        allMax == prod(eligibleTeams)
        score(team) ==
              5 * cw(team) * maxPw * cw(u) * allMax
            + 3 * cw(team) * maxOf(u) * (allMax \div maxOf(team)) * maxCw * maxPw
            + 2 * team.priorityLevel * maxCw * cw(u) * allMax
    IN  IF eligibleTeams = {} THEN {}
        ELSE {team \in eligibleTeams :
                 \A other \in eligibleTeams : score(other) <= score(team)}

\* selectBestTeamWithValidation
selectBestTeamWithValidation(availableTeams) ==
    {team \in selectBestTeam({c \in availableTeams : validateSingleTeam(c)}) :
        validateSingleTeam(team)}

\* validateAssignmentIntegrity, on the incident row the call loaded
validateAssignmentIntegrity(inc, i, selectedTeam, bag) ==
    /\ inc.assigned_team_id = Null
    /\ ~\E jc \in BagToSet(bag) : jc.incident_id = i /\ jc.team_id = selectedTeam.id

----------------------------------------------------------------------------
(* AutomatedAssignmentService: categorisation and rule-based selection *)

\* the rule keywords that occur in title + description + location
fullText == [i \in Incidents |-> IF i = "i1" THEN {"overflow", "maintenance"} ELSE {}]

Keywords(category) ==
    CASE category = "critical" ->
           {"emergency", "urgent", "flood", "overflow", "sewage backup",
            "public health", "environmental", "contamination", "blockage severe",
            "pipe burst", "manhole overflow", "sewage spill"}
      [] category = "high" ->
           {"backup", "slow drainage", "odour", "noise", "localized flooding",
            "manhole damaged", "pipe damaged", "access issues"}
      [] category = "medium" ->
           {"maintenance", "inspection", "cleaning", "routine", "preventive",
            "minor blockage", "odor control", "access repair"}
      [] category = "low" ->
           {"consultation", "advice", "general inquiry", "scheduled maintenance",
            "documentation", "follow-up", "routine check"}

\* the first category, in the order of the rule table, with a keyword in the text
categorizeIncident(i) ==
    IF fullText[i] \cap Keywords("critical") # {} THEN "critical"
    ELSE IF fullText[i] \cap Keywords("high") # {} THEN "high"
    ELSE IF fullText[i] \cap Keywords("medium") # {} THEN "medium"
    ELSE IF fullText[i] \cap Keywords("low") # {} THEN "low"
    ELSE "medium"

max_assignments_per_team(category) ==
    CASE category = "critical" -> 2
      [] category = "high"     -> 3
      [] category = "medium"   -> 5
      [] category = "low"      -> 10

\* Incident has no priority attribute: no job card is ever counted
countPriorityAssignments(t, category) == 0

\* (ruleBonus - 1) * 0.2 in hundredths.  No team name carries a keyword, so
\* the geographic and time factors are 1.0 and every team has the single
\* capability standard_response: 1.2 * 1.0 where the category asks for it
ruleBonusPoints(category) == IF category = "critical" THEN 0 ELSE 4

\* selectBestTeamWithRules: reduce keeps the first team of greatest finalScore
\* in the order Team.findAll returned, which is any order; empty when the
\* call throws.  finalScore = cw/max(cw) * 0.3 + (1 - cur/max) * 0.3
\* + priority/5 * 0.2 + (ruleBonus - 1) * 0.2, in exact arithmetic
selectBestTeamWithRules(availableTeams, category) ==
    LET basic == {team \in availableTeams :
                     /\ team.isAvailable
                     /\ team.currentCapacity < team.maxCapacity
                     /\ team.memberCount # 0}
        strict == {team \in basic :
                     countPriorityAssignments(team.id, category)
                         < max_assignments_per_team(category)}
        eligibleTeams == IF strict = {} THEN basic ELSE strict
        cw(team) == team.maxCapacity - team.currentCapacity
        maxOf(team) == team.maxCapacity
        maxCw == SetMax({cw(team) : team \in eligibleTeams})
        RECURSIVE prod(_)
        prod(R) == IF R = {} THEN 1
                   ELSE LET x == CHOOSE y \in R : TRUE
                        IN  maxOf(x) * prod(R \ {x})
        allMax == prod(eligibleTeams)
        finalScore(team) ==
              30 * cw(team) * allMax
            + 30 * cw(team) * (allMax \div maxOf(team)) * maxCw
            + (4 * team.priorityLevel + ruleBonusPoints(category)) * maxCw * allMax
    IN  IF eligibleTeams = {} THEN {}
        ELSE {team \in eligibleTeams :
                 \A other \in eligibleTeams : finalScore(other) <= finalScore(team)}

----------------------------------------------------------------------------
(* State after construction: empty tables but for the two seeded teams *)

NewTeam ==
    [is_available |-> TRUE, current_capacity |-> 0,
     max_capacity |-> DefaultMaxCapacity, available_from |-> NullTime]

Idle == [pc |-> "idle"]
NoHistory == <<>>
Attempts == {"a1", "a2"}

\* the status line of a route's answer, or the code a service call returns;
\* fault names the database write that threw, if one did
Respond(code, fault) == response' = [code |-> code, fault |-> fault]

Init ==
    /\ incidents = [i \in Incidents |-> NoRow]
    /\ jobCards = EmptyBag
    /\ teams = [t \in Teams |-> NewTeam]
    /\ now = 0
    /\ response = [code |-> "OK", fault |-> "none"]
    /\ attempts = [a \in Attempts |-> Idle]
    /\ history = NoHistory

\* a database write that throws; "none" when every write succeeds
FailPoints ==
    {"JobCard.create", "Team.update", "WorkerProgress.create",
     "incident.update", "ActivityLog.create"}

----------------------------------------------------------------------------
(* Public routes *)

\* POST /report
Report(i) ==
    /\ incidents[i] = NoRow
    /\ incidents' = [incidents EXCEPT ![i] =
           [status |-> "verified", assigned_team_id |-> Null, assigned_at |-> NullTime]]
    /\ Respond("OK", "none")
    /\ UNCHANGED <<jobCards, teams, now, attempts, history>>

\* POST /escalate
Escalate(i) ==
    /\ IF incidents[i] = NoRow
       THEN /\ Respond("BAD_REQUEST", "none")
            /\ UNCHANGED incidents
       ELSE /\ incidents' = [incidents EXCEPT ![i].status = "escalated"]
            /\ Respond("OK", "none")
    /\ UNCHANGED <<jobCards, teams, now, attempts, history>>

----------------------------------------------------------------------------
(* Manager routes *)

\* the writes of an assignment that were made before the one named by fail
\* threw; order is the order of the writes in the handler
StepsDone(order, fail) ==
    IF fail = "none" THEN Len(order)
    ELSE (CHOOSE k \in 1..Len(order) : order[k] = fail) - 1

Done(order, fail, step) ==
    \E k \in 1..StepsDone(order, fail) : order[k] = step

ManualOrder ==
    <<"JobCard.create", "WorkerProgress.create", "incident.update",
      "Team.update", "ActivityLog.create">>

\* the job_cards table after the create and the worker_progress inserts
CardsAfter(bag, order, fail, i, t) ==
    IF Done(order, fail, "WorkerProgress.create")
    THEN bag (+) SetToBag({NewCard(i, t, memberCount[t])})
    ELSE IF Done(order, fail, "JobCard.create")
    THEN bag (+) SetToBag({NewCard(i, t, 0)})
    ELSE bag

\* incident.update({status: 'In Progress', assigned_team_id, assigned_at})
Assigned(t) ==
    [status |-> "In Progress", assigned_team_id |-> t, assigned_at |-> now]

\* DELETE /incidents/:incidentId/assign
RemoveTeam(i, m) ==
    /\ IF CardsOfManager(i, m) = {}
       THEN /\ Respond("NOT_FOUND", "none")
            /\ UNCHANGED <<incidents, jobCards>>
       ELSE \E jobCard \in CardsOfManager(i, m) :
            /\ jobCards' = jobCards (-) SetToBag({jobCard})
            /\ incidents' = [incidents EXCEPT ![i].status = "verified"]
            /\ Respond("OK", "none")
    /\ UNCHANGED <<teams, now, attempts, history>>

----------------------------------------------------------------------------
(* Service calls as functions of the tables: st holds incidents, jobCards, *)
(* teams and the outcome code; the result is the set of possible outcomes  *)

Tables == [incidents |-> incidents, jobCards |-> jobCards, teams |-> teams,
           code |-> "OK"]

ServiceOrder ==
    <<"JobCard.create", "Team.update", "WorkerProgress.create",
      "incident.update", "ActivityLog.create">>

\* the writes both services make once a team is selected: job card, team
\* capacity from the value read earlier, progress rows, incident, audit record
assignmentWrites(st, i, team, fail, code) ==
    [incidents |-> IF Done(ServiceOrder, fail, "incident.update")
                   THEN [st.incidents EXCEPT ![i] = Assigned(team.id)]
                   ELSE st.incidents,
     jobCards  |-> CardsAfter(st.jobCards, ServiceOrder, fail, i, team.id),
     teams     |-> IF Done(ServiceOrder, fail, "Team.update")
                   THEN [st.teams EXCEPT ![team.id].current_capacity =
                            team.currentCapacity + 1]
                   ELSE st.teams,
     code      |-> IF fail = "none" THEN "OK" ELSE code]

\* AutomatedAssignmentService.assignIncidentWithRules; every failure is thrown
assignIncidentWithRules(st, i, m, fail) ==
    LET inc == st.incidents[i]
        availableTeams == getAvailableTeams(st.teams, st.jobCards, m)
        read == [st EXCEPT !.teams = reconcile(st.teams, st.jobCards, m)]
        selected == selectBestTeamWithRules(availableTeams, categorizeIncident(i))
    IN  IF inc = NoRow THEN {[st EXCEPT !.code = "INCIDENT_NOT_FOUND"]}
        ELSE IF inc.status # "verified" THEN {[st EXCEPT !.code = "NOT_READY"]}
        ELSE IF selected = {} THEN {[read EXCEPT !.code = "NO_ELIGIBLE_TEAMS"]}
        ELSE {assignmentWrites(read, i, team, fail, "WRITE_FAILED") : team \in selected}

\* assignIncident with step 2 (the status check) left out, so that an incident
\* that is not verified is answered by the later steps
assignIncidentAnyStatus(st, i, m, fail) ==
    LET inc == st.incidents[i]
        availableTeams == getAvailableTeams(st.teams, st.jobCards, m)
        read == [st EXCEPT !.teams = reconcile(st.teams, st.jobCards, m)]
        selected == selectBestTeamWithValidation(availableTeams)
    IN  IF inc = NoRow THEN {[st EXCEPT !.code = "ASSIGNMENT_SYSTEM_ERROR"]}
        ELSE IF ~userActive(m) \/ ~\E t \in TeamsOf(m) : st.teams[t].is_available
        THEN {[st EXCEPT !.code = "MANAGER_AUTHORIZATION_FAILED"]}
        ELSE IF ~\E team \in availableTeams : validateSingleTeam(team)
        THEN {[read EXCEPT !.code = "NO_VALID_TEAMS_AVAILABLE"]}
        ELSE {IF validateAssignmentIntegrity(inc, i, team, read.jobCards)
              THEN assignmentWrites(read, i, team, fail, "ASSIGNMENT_EXECUTION_ERROR")
              ELSE [read EXCEPT !.code = "ASSIGNMENT_INTEGRITY_VIOLATION"]
                 : team \in selected}

\* IntelligentAssignmentService.assignIncident; every failure is a returned code
assignIncident(st, i, m, fail) ==
    LET inc == st.incidents[i]
        availableTeams == getAvailableTeams(st.teams, st.jobCards, m)
        read == [st EXCEPT !.teams = reconcile(st.teams, st.jobCards, m)]
        selected == selectBestTeamWithValidation(availableTeams)
    IN  IF inc = NoRow THEN {[st EXCEPT !.code = "ASSIGNMENT_SYSTEM_ERROR"]}
        ELSE IF inc.status # "verified"
        THEN {[st EXCEPT !.code = "INCIDENT_NOT_READY_FOR_ASSIGNMENT"]}
        \* validateManagerAuthorization: an active manager with an available team
        ELSE IF ~userActive(m) \/ ~\E t \in TeamsOf(m) : st.teams[t].is_available
        THEN {[st EXCEPT !.code = "MANAGER_AUTHORIZATION_FAILED"]}
        \* validateTeamAvailability
        ELSE IF ~\E team \in availableTeams : validateSingleTeam(team)
        THEN {[read EXCEPT !.code = "NO_VALID_TEAMS_AVAILABLE"]}
        ELSE {IF validateAssignmentIntegrity(inc, i, team, read.jobCards)
              THEN assignmentWrites(read, i, team, fail, "ASSIGNMENT_EXECUTION_ERROR")
              ELSE [read EXCEPT !.code = "ASSIGNMENT_INTEGRITY_VIOLATION"]
                 : team \in selected}

\* POST /incidents/:incidentId/assign/:teamId
manualAssign(st, i, t, m, fail) ==
    IF st.incidents[i] = NoRow THEN [st EXCEPT !.code = "NOT_FOUND"]
    ELSE IF \E jc \in BagToSet(st.jobCards) : jc.incident_id = i
    THEN [st EXCEPT !.code = "BAD_REQUEST"]
    ELSE IF manager_id[t] # m THEN [st EXCEPT !.code = "NOT_FOUND"]
    ELSE [incidents |-> IF Done(ManualOrder, fail, "incident.update")
                        THEN [st.incidents EXCEPT ![i] = Assigned(t)]
                        ELSE st.incidents,
          jobCards  |-> CardsAfter(st.jobCards, ManualOrder, fail, i, t),
          teams     |-> IF Done(ManualOrder, fail, "Team.update")
                        THEN [st.teams EXCEPT ![t].current_capacity = @ + 1]
                        ELSE st.teams,
          code      |-> IF fail = "none" THEN "OK" ELSE "SERVER_ERROR"]

\* POST /automation/revert/:incidentId, behind verifyIncidentAssignmentAccess;
\* JobCards[0] is any of the cards joined to a team of the manager
revertAssignment(st, i, m) ==
    LET cards == {jc \in BagToSet(st.jobCards) :
                     jc.incident_id = i /\ manager_id[jc.team_id] = m}
    IN  IF st.incidents[i] = NoRow THEN {[st EXCEPT !.code = "NOT_FOUND"]}
        ELSE IF cards = {} THEN {[st EXCEPT !.code = "BAD_REQUEST"]}
        ELSE {[st EXCEPT
                 !.jobCards = @ (-) SetToBag({jobCard}),
                 !.incidents[i] = [status |-> "verified", assigned_team_id |-> Null,
                                   assigned_at |-> NullTime],
                 !.code = "OK"] : jobCard \in cards}

\* the tables become those of outcome out
Commit(out) ==
    /\ incidents' = out.incidents
    /\ jobCards' = out.jobCards
    /\ teams' = out.teams

\* the fault a call reports: none unless a write was reached and threw
FaultOf(out, fail) ==
    IF out.code \in {"WRITE_FAILED", "ASSIGNMENT_EXECUTION_ERROR", "SERVER_ERROR"}
    THEN fail ELSE "none"

ManualAssign(i, t, m, fail) ==
    /\ LET out == manualAssign(Tables, i, t, m, fail)
       IN  /\ out.teams[t].current_capacity <= MaxCapacityCount
           /\ BagCardinality(out.jobCards) <= MaxJobCards
           /\ Commit(out)
           /\ Respond(out.code, FaultOf(out, fail))
    /\ UNCHANGED <<now, attempts, history>>

Revert(i, m) ==
    /\ \E out \in revertAssignment(Tables, i, m) :
          /\ Commit(out)
          /\ Respond(out.code, "none")
    /\ UNCHANGED <<now, attempts, history>>

\* a call of IntelligentAssignmentService.assignIncident
AssignIncident(i, m, fail) ==
    /\ \E out \in assignIncident(Tables, i, m, fail) :
          /\ BagCardinality(out.jobCards) <= MaxJobCards
          /\ Commit(out)
          /\ Respond(out.code, FaultOf(out, fail))
    /\ UNCHANGED <<now, attempts, history>>

\* POST /automation/assign/:incidentId, behind verifyIncidentAssignmentAccess
AssignWithRules(i, m, fail) ==
    /\ \E out \in assignIncidentWithRules(Tables, i, m, fail) :
          /\ BagCardinality(out.jobCards) <= MaxJobCards
          /\ Commit(out)
          /\ Respond(out.code, FaultOf(out, fail))
    /\ UNCHANGED <<now, attempts, history>>

\* one pass of the teamId branch of the bulk route over incident i
bulkManualStep(st, i, t) ==
    IF st.incidents[i] = NoRow \/ st.incidents[i].status # "verified"
    THEN [st EXCEPT !.code = "NOT_READY"]
    ELSE [st EXCEPT !.jobCards = @ (+) SetToBag({NewCard(i, t, 0)}),
                    !.incidents[i] = Assigned(t),
                    !.code = "OK"]

\* the loop of the bulk route over incidentIds; errors are collected, not thrown
RECURSIVE bulkLoop(_, _, _, _)
bulkLoop(st, incidentIds, t, m) ==
    IF incidentIds = <<>> THEN {st}
    ELSE LET step == IF t # Null
                     THEN {bulkManualStep(st, Head(incidentIds), t)}
                     ELSE assignIncidentWithRules(st, Head(incidentIds), m, "none")
         IN  UNION {bulkLoop(out, Tail(incidentIds), t, m) : out \in step}

BulkLists(ids) == UNION {[1..n -> ids] : n \in 1..MaxBulk}

\* verifyBulkAssignmentAuthorization: whether some order of the joined rows
\* puts a card of another manager's team first
mayDenyBulk(incidentIds, m) ==
    \E k \in 1..Len(incidentIds) :
        \E jc \in CardsOf(incidentIds[k]) : manager_id[jc.team_id] # m

mayAllowBulk(incidentIds, m) ==
    \A k \in 1..Len(incidentIds) :
        \/ CardsOf(incidentIds[k]) = {}
        \/ \E jc \in CardsOf(incidentIds[k]) : manager_id[jc.team_id] = m

\* POST /automation/bulk-assign for a request that assignmentRateLimit lets
\* through; t = Null when the body names no team
BulkAssign(incidentIds, t, m) ==
    /\ \E allow \in BOOLEAN :
          /\ IF allow THEN mayAllowBulk(incidentIds, m) ELSE mayDenyBulk(incidentIds, m)
          /\ IF (t # Null /\ manager_id[t] # m) \/ ~allow
             THEN /\ Respond("FORBIDDEN", "none")
                  /\ UNCHANGED <<incidents, jobCards, teams>>
             ELSE \E out \in bulkLoop(Tables, incidentIds, t, m) :
                  /\ BagCardinality(out.jobCards) <= MaxJobCards
                  /\ Commit(out)
                  /\ Respond("OK", "none")
    /\ UNCHANGED <<now, attempts, history>>

\* PATCH /incidents/:incidentId/status: the validation middleware, then
\* applyStatusChange, which finds no jobCard in the validation result
StatusChange(i, newStatus, m) ==
    /\ \E jc0 \in FirstCard(CardsOf(i)) :
          LET result == validateIncidentStatusChange(
                            incidents[i], newStatus, m, CardsOf(i), jc0)
          IN  /\ incidents' = IF result.valid
                              THEN [incidents EXCEPT ![i].status = newStatus]
                              ELSE incidents
              /\ Respond(IF result.valid THEN "OK" ELSE "BAD_REQUEST", "none")
    /\ UNCHANGED <<jobCards, teams, now, attempts, history>>

----------------------------------------------------------------------------
(* Team leader routes *)

CapacityInputs == (0 - 1)..MaxCapacityInput

\* PUT /team/availability; a field that is not set is absent from the body
UpdateAvailability(t, setAvailable, is_available, setMax, max_capacity) ==
    /\ IF setMax /\ (max_capacity < 0 \/ max_capacity > 20)
       THEN /\ Respond("BAD_REQUEST", "none")
            /\ UNCHANGED teams
       ELSE /\ teams' = [teams EXCEPT
                 ![t].is_available = IF setAvailable THEN is_available ELSE @,
                 ![t].max_capacity = IF setMax THEN max_capacity ELSE @]
            /\ Respond("OK", "none")
    /\ UNCHANGED <<incidents, jobCards, now, attempts, history>>

Durations == {4, 60}

\* POST /team/unavailable
SetUnavailable(t, duration_minutes) ==
    /\ IF duration_minutes < 5 \/ duration_minutes > 1440
       THEN /\ Respond("BAD_REQUEST", "none")
            /\ UNCHANGED teams
       ELSE /\ teams' = [teams EXCEPT
                 ![t].is_available = FALSE,
                 ![t].available_from = now + duration_minutes * 60 * 1000]
            /\ Respond("OK", "none")
    /\ UNCHANGED <<incidents, jobCards, now, attempts, history>>

----------------------------------------------------------------------------
(* TeamMonitoringService *)

\* updateTeamCapacity for every team
updateAllTeamCapacities(tms, bag) ==
    [t \in Teams |->
        IF tms[t].current_capacity # activeJobCount(bag, t)
        THEN [tms[t] EXCEPT !.current_capacity = activeJobCount(bag, t)]
        ELSE tms[t]]

shouldTeamBeAvailable(team) ==
    IF team.available_from # NullTime /\ team.available_from > now THEN FALSE
    ELSE IF team.current_capacity >= team.max_capacity THEN FALSE
    ELSE TRUE

checkTeamAvailability(tms) ==
    [t \in Teams |-> [tms[t] EXCEPT !.is_available = shouldTeamBeAvailable(tms[t])]]

\* POST /monitoring/update-capacities
UpdateCapacities ==
    /\ teams' = updateAllTeamCapacities(teams, jobCards)
    /\ Respond("OK", "none")
    /\ UNCHANGED <<incidents, jobCards, now, attempts, history>>

\* one firing of the monitoring timer
MonitorSweep ==
    /\ teams' = checkTeamAvailability(updateAllTeamCapacities(teams, jobCards))
    /\ UNCHANGED <<incidents, jobCards, now, response, attempts, history>>

\* an hour passes
Tick ==
    /\ now < MaxTicks * HourMs
    /\ now' = now + HourMs
    /\ UNCHANGED <<incidents, jobCards, teams, response, attempts, history>>

----------------------------------------------------------------------------
(* The system with every database write succeeding *)

RequestedStatuses == {"In Progress", "Completed", "Cancelled", "verified"}

\* every request and timer firing; fails are the write failures that may
\* occur, ids the incidents the requests name
Requests(fails, ids) ==
    \/ \E i \in ids : Report(i)
    \/ \E i \in ids : Escalate(i)
    \/ \E i \in ids, t \in Teams, m \in Managers, fail \in fails :
          ManualAssign(i, t, m, fail)
    \/ \E i \in ids, m \in Managers : RemoveTeam(i, m)
    \/ \E i \in ids, m \in Managers : Revert(i, m)
    \/ \E i \in ids, m \in Managers, fail \in fails : AssignIncident(i, m, fail)
    \/ \E i \in ids, m \in Managers, fail \in fails : AssignWithRules(i, m, fail)
    \/ \E incidentIds \in BulkLists(ids), t \in Teams \cup {Null}, m \in Managers :
          BulkAssign(incidentIds, t, m)
    \/ \E i \in ids, s \in RequestedStatuses, m \in Managers :
          StatusChange(i, s, m)
    \/ \E t \in LedTeams, sa \in BOOLEAN, a \in BOOLEAN, sm \in BOOLEAN,
          c \in CapacityInputs : UpdateAvailability(t, sa, a, sm, c)
    \/ \E t \in LedTeams, d \in Durations : SetUnavailable(t, d)
    \/ UpdateCapacities
    \/ MonitorSweep
    \/ Tick

\* the incidents the public reports
Reported == {"i1"}

Next == Requests({"none"}, Reported)

Spec == Init /\ [][Next]_vars

----------------------------------------------------------------------------
(* Properties of the incident lifecycle *)

TerminalStatuses == {"Completed", "Cancelled"}

\* C1: once an incident's status is Completed or Cancelled, no operation
\* (status change, manual / rule-based / bulk assignment, revert, remove-team,
\* public escalate) changes its status again
C1_TerminalStatusNeverChanges ==
    [][\A i \in Incidents :
          incidents[i].status \in TerminalStatuses
              => incidents'[i].status = incidents[i].status]_vars

\* a terminal incident exists, so the operations above run against it
C1_TerminalReached ==
    \E i \in Incidents : incidents[i].status \in TerminalStatuses

\* the statuses of the lifecycle table
LifecycleStatuses ==
    {"Not Started", "verified", "In Progress", "Completed", "Cancelled"}

\* C3: in every reachable state an incident has a non-null assigned_team_id
\* if and only if its status is In Progress or Completed; a verified,
\* Not Started or Cancelled incident never carries a team.  Stated for the
\* incidents whose status is one of the lifecycle table
C3_TeamIffInProgressOrCompleted ==
    \A i \in Incidents :
        incidents[i].status \in LifecycleStatuses =>
            (incidents[i].assigned_team_id # Null
                <=> incidents[i].status \in {"In Progress", "Completed"})

\* an incident was assigned and is In Progress with its team
C3_AssignedReached ==
    \E i \in Incidents :
        incidents[i].status = "In Progress" /\ incidents[i].assigned_team_id # Null

\* C4: in every reachable state every team has 0 <= current_capacity <= max_capacity
C4_CapacityWithinBounds ==
    \A t \in Teams :
        /\ 0 <= teams[t].current_capacity
        /\ teams[t].current_capacity <= teams[t].max_capacity

\* a team carries work and has a lowered max_capacity
C4_LoadedTeamReached ==
    \E t \in Teams :
        teams[t].current_capacity > 0 /\ teams[t].max_capacity < DefaultMaxCapacity

Quiescent == \A a \in Attempts : attempts[a].pc \in {"idle", "done"}

\* C5: whenever no assignment, completion or revert is in progress, each
\* team's current_capacity equals the number of its job cards that are not
\* completed
C5_CapacityCountsJobCards ==
    Quiescent =>
        \A t \in Teams : teams[t].current_capacity = activeJobCount(jobCards, t)

\* a job card exists while nothing is in progress
C5_CardReached == Quiescent /\ jobCards # EmptyBag

cardCount(i) ==
    BagCardinality([jc \in CardsOf(i) |-> jobCards[jc]])

\* C7: in every reachable state no incident has more than one job card, and
\* every incident with an assigned team has exactly one
C7_OneJobCardPerIncident ==
    \A i \in Incidents :
        /\ cardCount(i) <= 1
        /\ incidents[i].assigned_team_id # Null => cardCount(i) = 1

\* an incident has a team and a job card
C7_CardOfAssignedReached ==
    \E i \in Incidents : incidents[i].assigned_team_id # Null /\ cardCount(i) = 1

----------------------------------------------------------------------------
(* validateStatusTransition on its own: two status values, started at any  *)
(* status, are driven through every request the function accepts; history  *)
(* keeps the statuses each has passed through                              *)

Row(status) == [status |-> status, assigned_team_id |-> Null, assigned_at |-> NullTime]

InitWalk ==
    /\ incidents \in [Incidents -> {Row(status) : status \in AllStatuses}]
    /\ history = [i \in Incidents |-> <<incidents[i].status>>]
    /\ jobCards = EmptyBag
    /\ teams = [t \in Teams |-> NewTeam]
    /\ now = 0
    /\ response = [code |-> "OK", fault |-> "none"]
    /\ attempts = [a \in Attempts |-> Idle]

\* validateStatusTransition(currentStatus, newStatus), its answer returned
\* and, where it is valid, the status moved
Transition(i, newStatus) ==
    LET result == validateStatusTransition(incidents[i].status, newStatus)
    IN  /\ Len(history[i]) < MaxWalk
        /\ incidents' = IF result.valid
                        THEN [incidents EXCEPT ![i].status = newStatus]
                        ELSE incidents
        /\ history' = IF result.valid
                      THEN [history EXCEPT ![i] = Append(@, newStatus)]
                      ELSE history
        /\ Respond(result.code, "none")
        /\ UNCHANGED <<jobCards, teams, now, attempts>>

NextWalk == \E i \in Incidents, newStatus \in AllStatuses : Transition(i, newStatus)

SpecWalk == InitWalk /\ [][NextWalk]_vars

\* C2: validateStatusTransition answers every (current, requested) pair, the
\* accepted pairs form no cycle (no chain of accepted transitions comes back
\* to a status it has left, a status itself included), and no pair whose
\* current status is Completed or Cancelled is accepted
C2_TransitionsTotalAcyclicTerminal ==
    /\ response.code \in {"OK", "INVALID_TRANSITION"}
    /\ \A i \in Incidents :
          /\ \A j, k \in 1..Len(history[i]) :
                j # k => history[i][j] # history[i][k]
          /\ \A k \in 1..(Len(history[i]) - 1) :
                history[i][k] \notin TerminalStatuses

\* a chain ran from Not Started to Completed and a further request was refused
C2_FullChainRefused ==
    /\ \E i \in Incidents :
          history[i] = <<"Not Started", "verified", "In Progress", "Completed">>
    /\ response.code = "INVALID_TRANSITION"

----------------------------------------------------------------------------
(* The system with database writes that may throw *)

\* the assignment services with any of their writes throwing, the revert
\* that makes an incident assignable again, and the capacity recount
NextFault ==
    \/ \E i \in Reported : Report(i)
    \/ \E i \in Reported, m \in Managers, fail \in FailPoints \cup {"none"} :
          AssignIncident(i, m, fail)
    \/ \E i \in Reported, m \in Managers, fail \in FailPoints \cup {"none"} :
          AssignWithRules(i, m, fail)
    \/ \E i \in Reported, m \in Managers : Revert(i, m)
    \/ UpdateCapacities

SpecFault == Init /\ [][NextFault]_vars

\* C9: if a step of an assignment (create job card, raise team capacity,
\* create worker-progress records, update the incident, write the audit
\* record) fails, the state after the operation equals the state before it:
\* no job card, capacity change, progress record or incident change remains
C9_FailedAssignmentLeavesNoWrites ==
    [][\A i \in Incidents, m \in Managers, fail \in FailPoints :
          (/\ AssignIncident(i, m, fail) \/ AssignWithRules(i, m, fail)
           /\ response'.fault = fail)
              => /\ incidents' = incidents
                 /\ jobCards' = jobCards
                 /\ teams' = teams]_vars

\* a write of an assignment threw
C9_WriteFailed ==
    response.fault \in FailPoints
        /\ response.code \in {"WRITE_FAILED", "ASSIGNMENT_EXECUTION_ERROR"}

----------------------------------------------------------------------------
(* Assignment, retry and revert; history keeps the latest successful      *)
(* assignment: the incident, the service, the tables before and after it, *)
(* the answer to a later call for the same incident, and whether it was   *)
(* reverted                                                               *)

Services == {"assignIncident", "assignIncidentWithRules"}

Snapshot == [incidents |-> incidents, jobCards |-> jobCards, teams |-> teams]

SnapshotOf(out) ==
    [incidents |-> out.incidents, jobCards |-> out.jobCards, teams |-> out.teams]

\* a call of one of the two assignment services
ObservedAssign(i, m, service) ==
    /\ \E out \in IF service = "assignIncident"
                  THEN assignIncident(Tables, i, m, "none")
                  ELSE assignIncidentWithRules(Tables, i, m, "none") :
          /\ BagCardinality(out.jobCards) <= MaxJobCards
          /\ Commit(out)
          /\ Respond(out.code, "none")
          /\ history' =
                IF out.code = "OK"
                THEN <<[incident |-> i, service |-> service, before |-> Snapshot,
                        after |-> SnapshotOf(out), retry |-> "none",
                        phase |-> "assigned"]>>
                ELSE IF history # NoHistory /\ history[1].incident = i
                        /\ history[1].phase = "assigned"
                THEN <<[history[1] EXCEPT !.retry = out.code]>>
                ELSE history
    /\ UNCHANGED <<now, attempts>>

\* POST /automation/revert/:incidentId
ObservedRevert(i, m) ==
    /\ \E out \in revertAssignment(Tables, i, m) :
          /\ Commit(out)
          /\ Respond(out.code, "none")
          /\ history' =
                IF out.code = "OK" /\ history # NoHistory /\ history[1].incident = i
                THEN <<[history[1] EXCEPT !.phase = "reverted"]>>
                ELSE history
    /\ UNCHANGED <<now, attempts>>

NextRoundTrip ==
    \/ \E i \in Reported : Report(i)
    \/ \E i \in Reported, m \in Managers, service \in Services :
          ObservedAssign(i, m, service)
    \/ \E i \in Reported, m \in Managers : ObservedRevert(i, m)
    \/ \E t \in LedTeams, sa \in BOOLEAN, a \in BOOLEAN, sm \in BOOLEAN,
          c \in CapacityInputs : UpdateAvailability(t, sa, a, sm, c)
    \/ Tick

SpecRoundTrip == Init /\ [][NextRoundTrip]_vars

\* the latest successful assignment was made by assignIncident for incident i
\* and has not been reverted
AssignedByAssignIncident(i) ==
    /\ history # NoHistory
    /\ history[1].incident = i
    /\ history[1].service = "assignIncident"
    /\ history[1].phase = "assigned"

\* C8 as the code has it: calling assignIncident again on an incident that an
\* earlier successful call already assigned fails with the code
\* INCIDENT_NOT_READY_FOR_ASSIGNMENT and leaves every team's current_capacity
\* and the job cards unchanged
C8_RetryNotReadyNothingWritten ==
    [][\A i \in Incidents, m \in Managers :
          (AssignedByAssignIncident(i) /\ ObservedAssign(i, m, "assignIncident"))
              => /\ response'.code = "INCIDENT_NOT_READY_FOR_ASSIGNMENT"
                 /\ teams' = teams
                 /\ jobCards' = jobCards]_vars

\* C8 as stated: the second call fails with ASSIGNMENT_INTEGRITY_VIOLATION and
\* leaves the team's current_capacity and the job cards unchanged
C8_RetryIntegrityViolation ==
    [][\A i \in Incidents, m \in Managers :
          (AssignedByAssignIncident(i) /\ ObservedAssign(i, m, "assignIncident"))
              => /\ response'.code = "ASSIGNMENT_INTEGRITY_VIOLATION"
                 /\ teams' = teams
                 /\ jobCards' = jobCards]_vars

\* assignIncident was called again for the incident it had assigned
C8_RetryAnswered ==
    \E i \in Incidents :
        /\ AssignedByAssignIncident(i)
        /\ history[1].retry # "none"
        /\ incidents[i].status = "In Progress"
        /\ teams[incidents[i].assigned_team_id].current_capacity > 0

\* C10: assigning an incident and then reverting the assignment restores the
\* pre-assignment state exactly: status verified, assigned_team_id null,
\* assigned_at null, the job card removed, and the team's current_capacity
\* back to its value before the assignment
C10_RevertRestoresPreAssignmentState ==
    [][(/\ history # NoHistory
        /\ history' # NoHistory
        /\ history[1].phase = "assigned"
        /\ history'[1].phase = "reverted"
        /\ Snapshot = history[1].after)
          => LET i == history[1].incident
                 before == history[1].before
             IN  /\ incidents'[i] = Row("verified")
                 /\ incidents'[i] = before.incidents[i]
                 /\ jobCards' = before.jobCards
                 /\ \A t \in Teams :
                       teams'[t].current_capacity =
                           before.teams[t].current_capacity]_vars

\* an assignment was reverted
C10_Reverted ==
    /\ history # NoHistory
    /\ history[1].phase = "reverted"
    /\ incidents[history[1].incident] = Row("verified")

----------------------------------------------------------------------------
(* Two calls of the assignment services in flight for one incident: each  *)
(* awaited read or write of a call is a step, and the steps of the two    *)
(* calls interleave in every order                                        *)

NoTeamView ==
    [id |-> Null, isAvailable |-> FALSE, currentCapacity |-> 0, maxCapacity |-> 0,
     priorityLevel |-> 0, memberCount |-> 0]

\* a call that has not yet read anything: inc is the incident row it loads,
\* team the element of getAvailableTeams it selects
Call(service, i, m) ==
    [pc |-> "load", service |-> service, incident |-> i, manager |-> m,
     inc |-> NoRow, team |-> NoTeamView, result |-> "none"]

Intelligent(a) == attempts[a].service = "assignIncident"

\* the call returns or throws with code
Finish(a, code) ==
    /\ attempts' = [attempts EXCEPT ![a].pc = "done", ![a].result = code]
    /\ Respond(code, "none")

Goto(a, pc) ==
    /\ attempts' = [attempts EXCEPT ![a].pc = pc]
    /\ UNCHANGED response

\* two requests arrive for a verified incident that has no team
StartPair(i, ma, mb, sa, sb) ==
    /\ Quiescent
    /\ incidents[i].status = "verified"
    /\ incidents[i].assigned_team_id = Null
    /\ attempts' = [a \in Attempts |->
                       IF a = "a1" THEN Call(sa, i, ma) ELSE Call(sb, i, mb)]
    /\ UNCHANGED <<incidents, jobCards, teams, now, response, history>>

\* Incident.findByPk and the status check
LoadIncident(a) ==
    /\ attempts[a].pc = "load"
    /\ LET inc == incidents[attempts[a].incident]
       IN  IF inc = NoRow
           THEN Finish(a, IF Intelligent(a) THEN "ASSIGNMENT_SYSTEM_ERROR"
                          ELSE "INCIDENT_NOT_FOUND")
           ELSE IF inc.status # "verified"
           THEN Finish(a, IF Intelligent(a) THEN "INCIDENT_NOT_READY_FOR_ASSIGNMENT"
                          ELSE "NOT_READY")
           ELSE /\ attempts' = [attempts EXCEPT ![a].pc = "teams", ![a].inc = inc]
                /\ UNCHANGED response
    /\ UNCHANGED <<incidents, jobCards, teams, now, history>>

\* validateManagerAuthorization (assignIncident only), getAvailableTeams with
\* its capacity write, and the selection of a team
ReadTeams(a) ==
    /\ attempts[a].pc = "teams"
    /\ LET m == attempts[a].manager
           availableTeams == getAvailableTeams(teams, jobCards, m)
           selected == IF Intelligent(a)
                       THEN selectBestTeamWithValidation(availableTeams)
                       ELSE selectBestTeamWithRules(
                                availableTeams, categorizeIncident(attempts[a].incident))
       IN  IF /\ Intelligent(a)
              /\ ~userActive(m) \/ ~\E t \in TeamsOf(m) : teams[t].is_available
           THEN /\ Finish(a, "MANAGER_AUTHORIZATION_FAILED")
                /\ UNCHANGED teams
           ELSE /\ teams' = reconcile(teams, jobCards, m)
                /\ IF selected = {}
                   THEN Finish(a, IF Intelligent(a) THEN "NO_VALID_TEAMS_AVAILABLE"
                                  ELSE "NO_ELIGIBLE_TEAMS")
                   ELSE \E team \in selected :
                        /\ attempts' = [attempts EXCEPT
                               ![a].pc = IF Intelligent(a) THEN "integrity" ELSE "create",
                               ![a].team = team]
                        /\ UNCHANGED response
    /\ UNCHANGED <<incidents, jobCards, now, history>>

\* validateAssignmentIntegrity: the row loaded earlier, and JobCard.findOne
CheckIntegrity(a) ==
    /\ attempts[a].pc = "integrity"
    /\ IF validateAssignmentIntegrity(
              attempts[a].inc, attempts[a].incident, attempts[a].team, jobCards)
       THEN Goto(a, "create")
       ELSE Finish(a, "ASSIGNMENT_INTEGRITY_VIOLATION")
    /\ UNCHANGED <<incidents, jobCards, teams, now, history>>

\* JobCard.create
CreateJobCard(a) ==
    /\ attempts[a].pc = "create"
    /\ jobCards' = jobCards (+)
           SetToBag({NewCard(attempts[a].incident, attempts[a].team.id, 0)})
    /\ Goto(a, "capacity")
    /\ UNCHANGED <<incidents, teams, now, history>>

\* Team.update({current_capacity: selectedTeam.currentCapacity + 1})
UpdateTeamCapacity(a) ==
    /\ attempts[a].pc = "capacity"
    /\ teams' = [teams EXCEPT ![attempts[a].team.id].current_capacity =
                    attempts[a].team.currentCapacity + 1]
    /\ Goto(a, "progress")
    /\ UNCHANGED <<incidents, jobCards, now, history>>

\* WorkerProgress.create for every active member, on the call's own job card
CreateWorkerProgress(a) ==
    /\ attempts[a].pc = "progress"
    /\ LET i == attempts[a].incident
           t == attempts[a].team.id
       IN  jobCards' = (jobCards (-) SetToBag({NewCard(i, t, 0)}))
                           (+) SetToBag({NewCard(i, t, memberCount[t])})
    /\ Goto(a, "incident")
    /\ UNCHANGED <<incidents, teams, now, history>>

\* incident.update({status: 'In Progress', assigned_team_id, assigned_at})
UpdateIncident(a) ==
    /\ attempts[a].pc = "incident"
    /\ incidents' = [incidents EXCEPT
           ![attempts[a].incident] = Assigned(attempts[a].team.id)]
    /\ Goto(a, "log")
    /\ UNCHANGED <<jobCards, teams, now, history>>

\* ActivityLog.create, and the call returns success
LogActivity(a) ==
    /\ attempts[a].pc = "log"
    /\ Finish(a, "OK")
    /\ UNCHANGED <<incidents, jobCards, teams, now, history>>

NextConc ==
    \/ \E i \in Reported : Report(i)
    \/ \E i \in Reported, ma \in Managers, mb \in Managers,
          sa \in Services, sb \in Services : StartPair(i, ma, mb, sa, sb)
    \/ \E a \in Attempts : LoadIncident(a)
    \/ \E a \in Attempts : ReadTeams(a)
    \/ \E a \in Attempts : CheckIntegrity(a)
    \/ \E a \in Attempts : CreateJobCard(a)
    \/ \E a \in Attempts : UpdateTeamCapacity(a)
    \/ \E a \in Attempts : CreateWorkerProgress(a)
    \/ \E a \in Attempts : UpdateIncident(a)
    \/ \E a \in Attempts : LogActivity(a)

SpecConc == Init /\ [][NextConc]_vars

\* both calls have returned, and both were made by a manager who owns teams
PairFinished ==
    /\ \A a \in Attempts : attempts[a].pc = "done"
    /\ \A a \in Attempts : TeamsOf(attempts[a].manager) # {}

NotReadyOrIntegrity ==
    {"INCIDENT_NOT_READY_FOR_ASSIGNMENT", "NOT_READY",
     "ASSIGNMENT_INTEGRITY_VIOLATION"}

\* C6: when two assignment attempts for the same verified, unassigned incident
\* run concurrently, then for every interleaving of their reads and writes
\* exactly one attempt reports success and the other fails with the
\* incident-not-ready or the assignment-integrity-violation error
C6_ExactlyOneAttemptSucceeds ==
    PairFinished =>
        \E a \in Attempts, b \in Attempts :
            /\ a # b
            /\ attempts[a].result = "OK"
            /\ attempts[b].result \in NotReadyOrIntegrity

\* the two attempts ran interleaved to the end and one of them succeeded
C6_PairReturned ==
    /\ PairFinished
    /\ \E a \in Attempts : attempts[a].result = "OK"
    /\ \E i \in Incidents : cardCount(i) > 0

----------------------------------------------------------------------------
(* Guards of the revert and assignment operations *)

\* C11: the revert-assignment operation is accepted only when the incident's
\* status is In Progress; requested on a Completed or Cancelled incident it
\* is rejected and changes neither the incident nor its job card
C11_RevertOnlyFromInProgress ==
    [][\A i \in Incidents, m \in Managers :
          Revert(i, m) =>
              /\ incidents[i].status # "In Progress" => response'.code # "OK"
              /\ incidents[i].status \in TerminalStatuses =>
                    /\ response'.code # "OK"
                    /\ incidents' = incidents
                    /\ jobCards' = jobCards]_vars

\* a Completed or Cancelled incident still has a job card of a team of some
\* manager, so a revert requested for it finds its card
C11_TerminalWithCardReached ==
    \E i \in Incidents, m \in Managers :
        incidents[i].status \in TerminalStatuses /\ CardsOfManager(i, m) # {}

\* the job_cards rows of incident i, with their multiplicity
cardsOfIncident(bag, i) ==
    LET kept == {jc \in BagToSet(bag) : jc.incident_id = i}
    IN  [jc \in kept |-> bag[jc]]

\* C12: no assignment operation (assignIncident, assignIncidentWithRules,
\* manual assignment to a named team, bulk assignment) assigns a team to an
\* incident whose status is not verified: such a request fails and leaves the
\* incident, the team and the job cards unchanged
C12_OnlyVerifiedIsAssigned ==
    [][\A i \in Incidents :
          incidents[i].status # "verified" =>
              /\ \A m \in Managers :
                    (AssignIncident(i, m, "none") \/ AssignWithRules(i, m, "none")
                        \/ \E t \in Teams : ManualAssign(i, t, m, "none"))
                        => /\ response'.code # "OK"
                           /\ incidents' = incidents
                           /\ teams' = teams
                           /\ jobCards' = jobCards
              /\ (\E incidentIds \in BulkLists(Reported), t \in Teams \cup {Null},
                     m \in Managers : BulkAssign(incidentIds, t, m))
                    => /\ incidents'[i] = incidents[i]
                       /\ cardsOfIncident(jobCards', i) = cardsOfIncident(jobCards, i)]_vars

\* an assignment service refused an incident that is not verified
C12_NotVerifiedRefused ==
    /\ response.code \in {"INCIDENT_NOT_READY_FOR_ASSIGNMENT", "NOT_READY"}
    /\ \E i \in Reported : Exists(i) /\ incidents[i].status # "verified"

----------------------------------------------------------------------------
(* Team selection on its own: selectBestTeam and selectBestTeamWithRules   *)
(* are handed every array of candidate teams up to the bounds, built one   *)
(* candidate at a time; history keeps the array, the function called and   *)
(* the team it returned                                                    *)

MaxViewCapacity == 3   \* largest maxCapacity of a candidate
MaxCandidates == 3     \* longest array of candidates

CandidateIds == <<"t1", "t2", "t3">>

Categories == {"critical", "high", "medium", "low"}

\* currentCapacity and maxCapacity of a candidate
Loads == {load \in (0..MaxViewCapacity) \X (1..MaxViewCapacity) : load[1] <= load[2]}

ViewParams == Loads \X BOOLEAN \X {1, 2}

\* an element of the array getAvailableTeams returns, with one active member
View(id, param) ==
    [id |-> id, isAvailable |-> param[2], currentCapacity |-> param[1][1],
     maxCapacity |-> param[1][2], priorityLevel |-> param[3], memberCount |-> 1]

Range(list) == {list[k] : k \in DOMAIN list}

\* selectBestTeam on an array: topTeams[Math.floor(Math.random() * length)]
selectBestTeamOf(list) == selectBestTeam(Range(list))

\* two candidates whose scores are computed from the same numbers, and so are
\* the same floating-point value
sameNumbers(a, b) ==
    /\ a.currentCapacity = b.currentCapacity
    /\ a.maxCapacity = b.maxCapacity
    /\ a.priorityLevel = b.priorityLevel

\* selectBestTeamWithRules on an array: reduce keeps the first team of
\* greatest finalScore.  Teams of different numbers whose scores are equal in
\* exact arithmetic may round either way, and any of them may be kept
selectBestTeamWithRulesOf(list, category) ==
    LET top == selectBestTeamWithRules(Range(list), category)
    IN  IF top = {} THEN {}
        ELSE IF \A a \in top, b \in top : sameNumbers(a, b)
        THEN {list[CHOOSE k \in DOMAIN list :
                      list[k] \in top /\ \A j \in 1..(k - 1) : list[j] \notin top]}
        ELSE top

InitSelect ==
    /\ history = [candidates |-> <<>>, by |-> "none", category |-> "none",
                  selected |-> NoTeamView]
    /\ incidents = [i \in Incidents |-> NoRow]
    /\ jobCards = EmptyBag
    /\ teams = [t \in Teams |-> NewTeam]
    /\ now = 0
    /\ response = [code |-> "OK", fault |-> "none"]
    /\ attempts = [a \in Attempts |-> Idle]

\* the array the functions are handed grows by one candidate
AddCandidate(param) ==
    /\ history.by = "none"
    /\ Len(history.candidates) < MaxCandidates
    /\ Len(history.candidates) < Len(CandidateIds)
    /\ history' = [history EXCEPT !.candidates =
           Append(@, View(CandidateIds[Len(@) + 1], param))]
    /\ UNCHANGED <<incidents, jobCards, teams, now, response, attempts>>

\* the call returns team, or throws when top is empty
Selected(top, by, category) ==
    IF top = {}
    THEN /\ history' = [history EXCEPT !.by = by, !.category = category]
         /\ Respond("NO_ELIGIBLE_TEAMS", "none")
    ELSE \E team \in top :
         /\ history' = [history EXCEPT !.by = by, !.category = category,
                                       !.selected = team]
         /\ Respond("OK", "none")

SelectBestTeam ==
    /\ history.by = "none"
    /\ Selected(selectBestTeamOf(history.candidates), "selectBestTeam", "none")
    /\ UNCHANGED <<incidents, jobCards, teams, now, attempts>>

SelectBestTeamWithRules(category) ==
    /\ history.by = "none"
    /\ Selected(selectBestTeamWithRulesOf(history.candidates, category),
                "selectBestTeamWithRules", category)
    /\ UNCHANGED <<incidents, jobCards, teams, now, attempts>>

NextSelect ==
    \/ \E param \in ViewParams : AddCandidate(param)
    \/ SelectBestTeam
    \/ \E category \in Categories : SelectBestTeamWithRules(category)

SpecSelect == InitSelect /\ [][NextSelect]_vars

Full(team) == team.currentCapacity >= team.maxCapacity

\* C13: for every list of candidate teams, selectBestTeam and
\* selectBestTeamWithRules never return a team whose current capacity is
\* greater than or equal to its max capacity, even when that team would have
\* the highest score; when every candidate is full they fail with a
\* no-eligible-team error
C13_FullTeamNeverSelected ==
    history.by # "none" =>
        /\ response.code = "OK" =>
              /\ history.selected \in Range(history.candidates)
              /\ ~Full(history.selected)
        /\ (\A team \in Range(history.candidates) : Full(team))
              => response.code = "NO_ELIGIBLE_TEAMS"

\* a full, available team of the higher priority level was passed over for a
\* team of the lower one
C13_FullTopPriorityPassedOver ==
    /\ history.by # "none"
    /\ response.code = "OK"
    /\ history.selected.priorityLevel = 1
    /\ \E team \in Range(history.candidates) :
          Full(team) /\ team.isAvailable /\ team.priorityLevel = 2


\* the numbers of non-completed job cards for incidents of one category that
\* a team with this many active job cards may hold: countPriorityAssignments
\* answers 0 whatever the number is, so the selection is the same for each
categoryCards(team) == 0..team.currentCapacity

\* C14: selectBestTeamWithRules never returns a team whose number of
\* non-completed job cards for incidents of the incident's category has
\* already reached that category's max_assignments_per_team (2 for critical,
\* 3 for high, 5 for medium, 10 for low)
C14_TeamAtCategoryCapNeverSelected ==
    (history.by = "selectBestTeamWithRules" /\ response.code = "OK") =>
        \A count \in categoryCards(history.selected) :
            count < max_assignments_per_team(history.category)

\* a team with two active job cards was returned for a critical incident
C14_CriticalTeamWithTwoCards ==
    /\ history.by = "selectBestTeamWithRules"
    /\ response.code = "OK"
    /\ history.category = "critical"
    /\ history.selected.currentCapacity >= 2


\* the teams the call recorded in history may return
possibleResults ==
    IF history.by = "selectBestTeam"
    THEN selectBestTeamOf(history.candidates)
    ELSE selectBestTeamWithRulesOf(history.candidates, history.category)

\* the eligible teams of greatest score for the call recorded in history
topScorers ==
    IF history.by = "selectBestTeam"
    THEN selectBestTeam(Range(history.candidates))
    ELSE selectBestTeamWithRules(Range(history.candidates), history.category)

\* C15: the team returned by team selection is an eligible team whose final
\* score is the maximum over all eligible teams, and when several eligible
\* teams tie for the maximum the result is one of the tied teams and each
\* tied team is a possible result (the choice is not fixed by array order)
C15_AnyTiedTopScorerMayBeReturned ==
    (history.by # "none" /\ response.code = "OK") =>
        /\ history.selected \in topScorers
        /\ \A team \in topScorers : team \in possibleResults

\* selectBestTeamWithRules returned one of two teams of the same numbers
C15_TieUnderRules ==
    /\ history.by = "selectBestTeamWithRules"
    /\ response.code = "OK"
    /\ \E team \in topScorers :
          team # history.selected /\ sameNumbers(team, history.selected)


----------------------------------------------------------------------------
(* The categorizer on its own: categorizeIncident is handed every incident *)
(* whose title, description and location are made of the words below, up   *)
(* to the bound, and is called more than once on the same incident;        *)
(* history keeps the three fields and what each call returned              *)

MaxWords == 2   \* words in title, description and location together
MaxCalls == 2   \* calls of categorizeIncident on one incident

Fields == {"title", "description", "location"}

Words == {"URGENT", "flooding", "sewage", "backup", "scheduled",
          "maintenance", "advice", "pothole"}

\* String.prototype.toLowerCase on a word
toLowerCase(word) == IF word = "URGENT" THEN "urgent" ELSE word

\* word.startsWith(part), word.endsWith(part) and word.includes(part) for the
\* lower-cased words above and the words of the keywords
startsWith(word, part) == word = part \/ (word = "flooding" /\ part = "flood")
endsWith(word, part) == word = part
includesWord(word, part) == startsWith(word, part) \/ endsWith(word, part)

\* the keywords of the rule table in the order they are listed, each split at
\* its spaces
keywords(category) ==
    CASE category = "critical" ->
           << <<"emergency">>, <<"urgent">>, <<"flood">>, <<"overflow">>,
              <<"sewage", "backup">>, <<"public", "health">>,
              <<"environmental">>, <<"contamination">>,
              <<"blockage", "severe">>, <<"pipe", "burst">>,
              <<"manhole", "overflow">>, <<"sewage", "spill">> >>
      [] category = "high" ->
           << <<"backup">>, <<"slow", "drainage">>, <<"odour">>, <<"noise">>,
              <<"localized", "flooding">>, <<"manhole", "damaged">>,
              <<"pipe", "damaged">>, <<"access", "issues">> >>
      [] category = "medium" ->
           << <<"maintenance">>, <<"inspection">>, <<"cleaning">>,
              <<"routine">>, <<"preventive">>, <<"minor", "blockage">>,
              <<"odor", "control">>, <<"access", "repair">> >>
      [] category = "low" ->
           << <<"consultation">>, <<"advice">>, <<"general", "inquiry">>,
              <<"scheduled", "maintenance">>, <<"documentation">>,
              <<"follow-up">>, <<"routine", "check">> >>
      [] OTHER -> <<>>

\* the keys of the rule table listed from the last to the first
assignmentRulesReversed ==
    <<"team_capabilities", "time_based", "geographic",
      "low", "medium", "high", "critical">>

\* Object.entries(this.assignmentRules): the keys in the order of the literal;
\* the last three entries have no keywords
assignmentRules ==
    <<"critical", "high", "medium", "low",
      "geographic", "time_based", "team_capabilities">>

\* `${title} ${description} ${location}`.toLowerCase(), split at its spaces:
\* an empty field leaves an empty word between two spaces
fullTextOf(incident) ==
    LET lower(field) ==
            IF field = <<>> THEN <<"">>
            ELSE [k \in DOMAIN field |-> toLowerCase(field[k])]
    IN  lower(incident.title) \o lower(incident.description)
            \o lower(incident.location)

\* text.includes(keyword)
includes(text, keyword) ==
    LET n == Len(keyword)
    IN  \E at \in 1..(Len(text) - n + 1) :
            IF n = 1 THEN includesWord(text[at], keyword[1])
            ELSE /\ endsWith(text[at], keyword[1])
                 /\ startsWith(text[at + n - 1], keyword[n])
                 /\ \A k \in 2..(n - 1) : text[at + k - 1] = keyword[k]

\* categorizeIncident: the first entry of the rule table with a matching
\* keyword; reasoning lists the matched keywords in the order of the table
categorizeIncidentText(incident) ==
    LET fullTextWords == fullTextOf(incident)
        matched(category) ==
            SelectSeq(keywords(category), LAMBDA k : includes(fullTextWords, k))
        hit == {at \in DOMAIN assignmentRules :
                   Len(matched(assignmentRules[at])) > 0}
    IN  IF hit = {}
        THEN [category |-> "medium", matchScore |-> 0,
              reasoning |-> <<"Default classification - no specific keywords matched">>]
        ELSE LET first == CHOOSE at \in hit : \A other \in hit : at <= other
                 category == assignmentRules[first]
             IN  [category |-> category,
                  matchScore |-> Len(matched(category)),
                  reasoning |-> <<"Matched", Len(matched(category)),
                                  matched(category)>>]

InitCategorize ==
    /\ history = [title |-> <<>>, description |-> <<>>, location |-> <<>>,
                  results |-> <<>>]
    /\ incidents = [i \in Incidents |-> NoRow]
    /\ jobCards = EmptyBag
    /\ teams = [t \in Teams |-> NewTeam]
    /\ now = 0
    /\ response = [code |-> "OK", fault |-> "none"]
    /\ attempts = [a \in Attempts |-> Idle]

\* the reporter types one more word into a field of the incident
AddWord(field, word) ==
    /\ history.results = <<>>
    /\ Len(history.title) + Len(history.description) + Len(history.location)
           < MaxWords
    /\ history' = [history EXCEPT ![field] = Append(@, word)]
    /\ UNCHANGED <<incidents, jobCards, teams, now, response, attempts>>

\* one call of categorizeIncident on the incident
Categorize ==
    /\ Len(history.results) < MaxCalls
    /\ history' = [history EXCEPT !.results =
           Append(@, categorizeIncidentText(
                         [title |-> history.title,
                          description |-> history.description,
                          location |-> history.location]))]
    /\ UNCHANGED <<incidents, jobCards, teams, now, response, attempts>>

NextCategorize ==
    \/ \E field \in Fields, word \in Words : AddWord(field, word)
    \/ Categorize

SpecCategorize == InitCategorize /\ [][NextCategorize]_vars

PriorityCategories == <<"critical", "high", "medium", "low">>

\* some keyword of the category occurs in the text of the incident in history
occurs(category) ==
    \E k \in DOMAIN keywords(category) :
        includes(fullTextOf([title |-> history.title,
                             description |-> history.description,
                             location |-> history.location]),
                 keywords(category)[k])

\* C16: categorizeIncident is a deterministic function of the lower-cased
\* title, description and location: it returns the first category in the
\* order critical, high, medium, low that has at least one keyword occurring
\* in the text, and medium when no keyword of any category occurs, with the
\* same reasoning string for the same text on every call
C16_FirstMatchingCategoryDeterministic ==
    \A call \in DOMAIN history.results :
        LET result == history.results[call]
        IN  /\ \A at \in DOMAIN PriorityCategories :
                  (/\ occurs(PriorityCategories[at])
                   /\ \A before \in 1..(at - 1) : ~occurs(PriorityCategories[before]))
                      => result.category = PriorityCategories[at]
            /\ (\A at \in DOMAIN PriorityCategories : ~occurs(PriorityCategories[at]))
                  => result.category = "medium"
            /\ result.category = history.results[1].category
            /\ result.reasoning = history.results[1].reasoning

\* two calls on a text with an upper-case critical keyword and a medium one
C16_CriticalBeforeMedium ==
    /\ Len(history.results) = 2
    /\ occurs("critical")
    /\ occurs("medium")
    /\ "URGENT" \in Range(history.title) \cup Range(history.description)
                      \cup Range(history.location)
    /\ history.results[2].category = "critical"


----------------------------------------------------------------------------
(* The completion rule against a clock of seconds: an incident is          *)
(* assigned, the clock moves by a second or by a second less than an hour, *)
(* and the manager asks for a status                                       *)

MaxSecondsPastHour == 2   \* the clock stops this many seconds after one hour

\* one second, and one second less than an hour
Delays == {1000, HourMs - 1000}

\* the times a request is made at: in the first seconds of the clock, and
\* from a second before the hour onwards
ClockTimes ==
    {from + passed * 1000 :
        from \in {0, HourMs - 1000}, passed \in 0..(MaxSecondsPastHour + 1)}

\* time passes between two requests
Advance(delay) ==
    /\ now + delay \in ClockTimes
    /\ now' = now + delay
    /\ UNCHANGED <<incidents, jobCards, teams, response, attempts, history>>

NextClock ==
    \/ \E i \in Reported : Report(i)
    \/ \E i \in Reported, t \in Teams, m \in Managers : ManualAssign(i, t, m, "none")
    \/ \E i \in Reported, m \in Managers : AssignIncident(i, m, "none")
    \/ \E i \in Reported, m \in Managers : RemoveTeam(i, m)
    \/ \E i \in Reported, s \in RequestedStatuses, m \in Managers :
          StatusChange(i, s, m)
    \/ \E delay \in Delays : Advance(delay)

SpecClock == Init /\ [][NextClock]_vars

\* the preconditions of a completion other than the time since assignment:
\* the incident is In Progress on a team whose manager asks, with a job card
\* of that team
ReadyForCompletion(i, m) ==
    /\ incidents[i].status = "In Progress"
    /\ incidents[i].assigned_team_id # Null
    /\ CardsOf(i) # {}
    /\ \A jc \in CardsOf(i) :
          /\ jc.team_id = incidents[i].assigned_team_id
          /\ manager_id[jc.team_id] = m

\* C17: a change of an incident to Completed is rejected whenever less than
\* 1 hour has elapsed since the incident's assigned_at, and, all other
\* preconditions met, is accepted once 60 minutes and 1 second have elapsed
C17_CompletionAfterOneHour ==
    [][\A i \in Incidents, m \in Managers :
          (StatusChange(i, "Completed", m) /\ incidents[i].assigned_at # NullTime) =>
              LET elapsed == now - incidents[i].assigned_at
              IN  /\ elapsed < 60 * 60 * 1000 =>
                        /\ response'.code # "OK"
                        /\ incidents' = incidents
                  /\ (elapsed >= 60 * 60 * 1000 + 1000 /\ ReadyForCompletion(i, m)) =>
                        /\ response'.code = "OK"
                        /\ incidents'[i].status = "Completed"]_vars

\* an incident assigned one second after the start was completed one hour
\* and one second later
C17_CompletedAtOneHourOneSecond ==
    \E i \in Incidents :
        /\ incidents[i].status = "Completed"
        /\ incidents[i].assigned_at = 1000
        /\ now = 60 * 60 * 1000 + 2000


----------------------------------------------------------------------------
(* AutomatedSchedulingService: the scheduler object and one run at a time,  *)
(* statement by statement.  history holds the object (isRunning, the       *)
(* interval timer, config, runStats), the local variables of the run in    *)
(* flight, the attempts the run has made, whether a fetch of the run threw *)
(* and the value of totalErrors when the run began                         *)

MaxRuns == 2         \* runs of the assignment cycle
MaxConcurrent == 1   \* largest maxConcurrentAssignments a request sets

\* parseInt(process.env.MAX_CONCURRENT_ASSIGNMENTS) || 10
DefaultMaxConcurrent == 10

\* config.priorityOrder of the constructor
DefaultPriorityOrder == <<"critical", "high", "medium", "low">>

\* the priorityOrder values POST /scheduling/config is sent
PriorityOrders == {DefaultPriorityOrder, <<"low", "medium", "high", "critical">>}

\* the orders an unordered findAll may return the rows of S in
Orders(S) ==
    {list \in [1..Cardinality(S) -> S] :
        \A j \in DOMAIN list, k \in DOMAIN list : list[j] = list[k] => j = k}

\* a cycle that is not in flight.  manual and originalDryRun belong to the
\* triggerManualAssignment call that awaits the cycle; number, runStartTime,
\* dryRun and attempted record which cycle it is, when and in which mode it
\* began and what it tried, logFailed that a manager's audit record failed
NoRun ==
    [pc |-> "idle", managers |-> <<>>, manager |-> Null, unassigned |-> <<>>,
     queue |-> <<>>, success |-> 0, errors |-> 0, totalAssigned |-> 0,
     totalErrors |-> 0, log |-> <<>>, fetchFailed |-> FALSE, errorsBefore |-> 0,
     manual |-> FALSE, originalDryRun |-> FALSE, dryRun |-> FALSE,
     number |-> 0, runStartTime |-> NullTime, attempted |-> <<>>,
     logFailed |-> FALSE]

\* an incident no cycle has attempted
NeverAttempted == [time |-> NullTime, runs |-> 0]

\* the constructor
NewScheduler ==
    [isRunning |-> FALSE, schedulerInterval |-> FALSE,
     config |-> [maxConcurrentAssignments |-> DefaultMaxConcurrent,
                 priorityOrder |-> DefaultPriorityOrder,
                 dryRunMode |-> FALSE],
     runStats |-> [totalRuns |-> 0, totalAssignments |-> 0, totalErrors |-> 0,
                   lastError |-> 0],
     assignmentHistory |-> {},
     run |-> NoRun,
     \* a second cycle in flight, while the event loop serves the first
     other |-> NoRun,
     \* the interval timers registered and not cleared
     timers |-> 0,
     \* when, and after how many cycles had begun, each incident was last
     \* attempted
     attemptedAt |-> [i \in Incidents |-> NeverAttempted],
     \* config.dryRunMode when the first of the pending manual triggers began
     dryRunBefore |-> FALSE]

InitSched ==
    /\ history = NewScheduler
    /\ incidents = [i \in Incidents |-> NoRow]
    /\ jobCards = EmptyBag
    /\ teams = [t \in Teams |-> NewTeam]
    /\ now = 0
    /\ response = [code |-> "OK", fault |-> "none"]
    /\ attempts = [a \in Attempts |-> Idle]

\* runScheduledAssignment up to its first await: nothing when not running
beginRun(scheduler) ==
    IF ~scheduler.isRunning THEN scheduler
    ELSE [scheduler EXCEPT !.runStats.totalRuns = @ + 1,
                           !.run = [NoRun EXCEPT
                               !.pc = "getActiveManagers",
                               !.errorsBefore = scheduler.runStats.totalErrors,
                               !.number = scheduler.runStats.totalRuns + 1,
                               !.dryRun = scheduler.config.dryRunMode,
                               !.runStartTime = now]]

\* startScheduling without the check of isRunning
startSchedulingAgain(scheduler) ==
    [beginRun([scheduler EXCEPT !.isRunning = TRUE])
        EXCEPT !.schedulerInterval = TRUE, !.timers = @ + 1]

\* startScheduling, with config.enabled set
startScheduling(scheduler) ==
    IF scheduler.isRunning THEN scheduler
    ELSE [beginRun([scheduler EXCEPT !.isRunning = TRUE])
             EXCEPT !.schedulerInterval = TRUE, !.timers = @ + 1]

\* stopScheduling: clearInterval clears the timer the handle names
stopScheduling(scheduler) ==
    IF ~scheduler.isRunning THEN scheduler
    ELSE [scheduler EXCEPT
             !.schedulerInterval = FALSE,
             !.timers = IF scheduler.schedulerInterval THEN @ - 1 ELSE @,
             !.isRunning = FALSE]

\* POST /scheduling/start
StartScheduling ==
    /\ history.run.pc = "idle"
    /\ history.runStats.totalRuns < MaxRuns
    /\ history' = startScheduling(history)
    /\ UNCHANGED <<incidents, jobCards, teams, now, response, attempts>>

\* POST /scheduling/stop
StopScheduling ==
    /\ history.run.pc = "idle"
    /\ history' = stopScheduling(history)
    /\ UNCHANGED <<incidents, jobCards, teams, now, response, attempts>>

\* POST /scheduling/config: updateConfig stops a running scheduler, assigns
\* the new values and starts it again
UpdateConfig(maxConcurrentAssignments, priorityOrder) ==
    /\ history.run.pc = "idle"
    /\ history.runStats.totalRuns < MaxRuns
    /\ LET stopped == stopScheduling(history)
           updated == [stopped EXCEPT
               !.config.maxConcurrentAssignments = maxConcurrentAssignments,
               !.config.priorityOrder = priorityOrder]
       IN  history' = IF history.isRunning THEN startScheduling(updated)
                      ELSE updated
    /\ UNCHANGED <<incidents, jobCards, teams, now, response, attempts>>

\* the interval timer fires
TimerFires ==
    /\ history.schedulerInterval
    /\ history.run.pc = "idle"
    /\ history.runStats.totalRuns < MaxRuns
    /\ history' = beginRun(history)
    /\ UNCHANGED <<incidents, jobCards, teams, now, response, attempts>>

\* the catch of runScheduledAssignment, up to its ActivityLog.create
cycleFailed(scheduler) ==
    [scheduler EXCEPT !.runStats.totalErrors = @ + 1,
                      !.runStats.lastError = scheduler.runStats.totalRuns,
                      !.run.pc = "logCycleError"]

\* getActiveManagers returns the active managers in some order, or throws
GetActiveManagers(fails) ==
    /\ history.run.pc = "getActiveManagers"
    /\ IF fails
       THEN history' = cycleFailed([history EXCEPT !.run.fetchFailed = TRUE])
       ELSE \E list \in Orders({m \in Managers : userActive(m)}) :
               history' = [history EXCEPT !.run.managers = list,
                                          !.run.pc = "forManager"]
    /\ UNCHANGED <<incidents, jobCards, teams, now, response, attempts>>

\* the head of the for loop over managers, with Team.count
ForManager ==
    /\ history.run.pc = "forManager"
    /\ history' =
          IF history.run.managers = <<>>
          THEN [history EXCEPT !.run.pc = "cycleCompleted"]
          ELSE LET manager == Head(history.run.managers)
                   rest == [history EXCEPT !.run.managers = Tail(@)]
               IN  IF TeamsOf(manager) = {} THEN rest
                   ELSE [rest EXCEPT !.run.manager = manager,
                                     !.run.pc = "getUnassignedIncidents"]
    /\ UNCHANGED <<incidents, jobCards, teams, now, response, attempts>>

\* the first maxToProcess incidents of one priority group
firstToProcess(group, maxConcurrentAssignments) ==
    SubSeq(group, 1, IF Len(group) < maxConcurrentAssignments
                     THEN Len(group) ELSE maxConcurrentAssignments)

\* the attempts of a run that takes the incidents in the order of the list
attemptsInListOrder(list, priorityOrder, maxConcurrentAssignments) ==
    [k \in DOMAIN list |->
        [incident |-> list[k], priority |-> categorizeIncident(list[k])]]

\* processIncidentsByPriority: the attempts it makes, in their order
attemptsByPriority(list, priorityOrder, maxConcurrentAssignments) ==
    LET group(priority) ==
            SelectSeq(list, LAMBDA i : categorizeIncident(i) = priority)
        entries(priority) ==
            LET first == firstToProcess(group(priority), maxConcurrentAssignments)
            IN  [k \in DOMAIN first |->
                    [incident |-> first[k], priority |-> priority]]
        RECURSIVE from(_)
        from(at) == IF at > Len(priorityOrder) THEN <<>>
                    ELSE entries(priorityOrder[at]) \o from(at + 1)
    IN  from(1)

\* getUnassignedIncidents, and processIncidentsByPriority up to its first
\* attempt; a throw is caught by the catch of the manager's iteration
GetUnassignedIncidents(fails) ==
    /\ history.run.pc = "getUnassignedIncidents"
    /\ IF fails
       THEN history' = [history EXCEPT !.run.fetchFailed = TRUE,
                                       !.run.totalErrors = @ + 1,
                                       !.run.pc = "forManager"]
       ELSE \E list \in Orders({i \in Incidents :
                                   /\ incidents[i] # NoRow
                                   /\ incidents[i].status = "verified"
                                   /\ incidents[i].assigned_team_id = Null
                                   /\ i \notin history.assignmentHistory}) :
               history' =
                  IF list = <<>> THEN [history EXCEPT !.run.pc = "forManager"]
                  ELSE [history EXCEPT
                           !.run.unassigned = list,
                           !.run.queue = attemptsByPriority(
                               list, history.config.priorityOrder,
                               history.config.maxConcurrentAssignments),
                           !.run.success = 0,
                           !.run.errors = 0,
                           !.run.log = <<>>,
                           !.run.pc = "assign"]
    /\ UNCHANGED <<incidents, jobCards, teams, now, response, attempts>>

\* no attempt is left: the error ends the loop
remainingAfterAbort(queue) == <<>>

\* the attempts left after one that threw: the catch counts it and the loop
\* goes on
remainingAfterError(queue) == Tail(queue)

\* one iteration of the inner loop of processIncidentsByPriority.
\* assignmentHistory is a Set: when assignIncidentWithRules has returned,
\* this.assignmentHistory.set(...) throws a TypeError before success++, and
\* the catch counts the attempt as an error
\* In dry-run mode nothing is called and the same set(...) throws.
AssignNext(fail) ==
    /\ history.run.pc = "assign"
    /\ history.run.queue # <<>>
    /\ LET attempt == Head(history.run.queue)
           counted(assigned) ==
               [history EXCEPT
                    !.run.errors = @ + 1,
                    !.run.queue = remainingAfterError(@),
                    !.run.log = Append(@,
                        [incident |-> attempt.incident,
                         priority |-> attempt.priority,
                         threw |-> ~assigned]),
                    !.run.attempted = Append(@,
                        [incident |-> attempt.incident,
                         assigned |-> assigned,
                         dryRun |-> history.config.dryRunMode]),
                    !.attemptedAt[attempt.incident] =
                        [time |-> now, runs |-> history.runStats.totalRuns]]
       IN  IF history.config.dryRunMode
           THEN /\ fail = "none"
                /\ UNCHANGED <<incidents, jobCards, teams>>
                /\ history' = counted(TRUE)
           ELSE \E out \in assignIncidentWithRules(
                              Tables, attempt.incident, history.run.manager, fail) :
                  /\ BagCardinality(out.jobCards) <= MaxJobCards
                  /\ Commit(out)
                  /\ history' = counted(out.code = "OK")
    /\ UNCHANGED <<now, response, attempts>>

\* processIncidentsByPriority returns; the manager's ActivityLog.create
\* follows when something was counted, and a throw of it is caught by the
\* catch of the manager's iteration
LogManagerResults(fails) ==
    /\ history.run.pc = "assign"
    /\ history.run.queue = <<>>
    /\ LET counted == [history EXCEPT
               !.run.totalAssigned = @ + history.run.success,
               !.run.totalErrors = @ + history.run.errors,
               !.run.pc = "forManager"]
       IN  IF history.run.success > 0 \/ history.run.errors > 0
           THEN history' = IF fails
                           THEN [counted EXCEPT !.run.totalErrors = @ + 1,
                                                !.run.logFailed = TRUE]
                           ELSE counted
           ELSE ~fails /\ history' = counted
    /\ UNCHANGED <<incidents, jobCards, teams, now, response, attempts>>

\* the cycle has settled: the finally of the triggerManualAssignment call
\* that awaited it restores config.dryRunMode
cycleSettled(scheduler) ==
    IF scheduler.run.manual
    THEN [scheduler EXCEPT !.config.dryRunMode = scheduler.run.originalDryRun,
                           !.run.pc = "idle"]
    ELSE [scheduler EXCEPT !.run.pc = "idle"]

\* the answer of POST /scheduling/trigger, when the cycle was triggered
TriggerAnswered(code) ==
    IF history.run.manual THEN Respond(code, "none") ELSE UNCHANGED response

\* after the loop over managers: the statistics and the system ActivityLog
CycleCompleted(fails) ==
    /\ history.run.pc = "cycleCompleted"
    /\ LET counted == [history EXCEPT
               !.runStats.totalAssignments = @ + history.run.totalAssigned,
               !.runStats.totalErrors = @ + history.run.totalErrors]
       IN  IF fails
           THEN history' = cycleFailed(counted) /\ UNCHANGED response
           ELSE history' = cycleSettled(counted) /\ TriggerAnswered("OK")
    /\ UNCHANGED <<incidents, jobCards, teams, now, attempts>>

\* ActivityLog.create in the catch of runScheduledAssignment.  When it
\* throws, the promise of the run is rejected with no handler: the process
\* goes on or exits, as the runtime treats unhandled rejections.  A
\* triggered cycle is awaited: the route catches the rejection and answers 500
LogCycleError(fails, exits) ==
    /\ history.run.pc = "logCycleError"
    /\ history.run.manual => ~exits
    /\ history' =
          IF fails /\ exits
          THEN [history EXCEPT !.isRunning = FALSE, !.schedulerInterval = FALSE,
                               !.timers = 0, !.run.pc = "exited"]
          ELSE cycleSettled(history)
    /\ TriggerAnswered(IF fails THEN "SERVER_ERROR" ELSE "OK")
    /\ UNCHANGED <<incidents, jobCards, teams, now, attempts>>

MaxConcurrentInputs == 0..MaxConcurrent

\* the database errors of a run: none, or the first or the fourth write of an
\* assignment throws
RunFailPoints == {"none", "JobCard.create", "incident.update"}

NextSched ==
    \/ \E i \in Incidents : Report(i)
    \/ StartScheduling
    \/ StopScheduling
    \/ \E maxConcurrentAssignments \in MaxConcurrentInputs,
          priorityOrder \in PriorityOrders :
          UpdateConfig(maxConcurrentAssignments, priorityOrder)
    \/ TimerFires
    \/ \E fails \in BOOLEAN : GetActiveManagers(fails)
    \/ ForManager
    \/ \E fails \in BOOLEAN : GetUnassignedIncidents(fails)
    \/ \E fail \in RunFailPoints : AssignNext(fail)
    \/ \E fails \in BOOLEAN : LogManagerResults(fails)
    \/ \E fails \in BOOLEAN : CycleCompleted(fails)
    \/ \E fails \in BOOLEAN, exits \in BOOLEAN : LogCycleError(fails, exits)

SpecSched == InitSched /\ [][NextSched]_vars


\* the incidents processIncidentsByPriority is to attempt: those of a
\* priority of the order with fewer than maxConcurrentAssignments incidents
\* of the same category before them in the list
selectedForRun(list, priorityOrder, maxConcurrentAssignments) ==
    {list[k] : k \in {at \in DOMAIN list :
        /\ categorizeIncident(list[at]) \in Range(priorityOrder)
        /\ Cardinality({before \in 1..(at - 1) :
               categorizeIncident(list[before]) = categorizeIncident(list[at])})
              < maxConcurrentAssignments}}

\* C18: within one scheduler run, when the assignment of one incident throws,
\* the run still attempts every remaining incident it selected for this run,
\* and that failure adds exactly one to the run's error count and nothing to
\* its success count
C18_ThrownAssignmentCountedRunGoesOn ==
    [][LET run == history.run
           next == history'.run
       IN  /\ (Len(next.log) = Len(run.log) + 1 /\ next.log[Len(next.log)].threw) =>
                 /\ next.errors = run.errors + 1
                 /\ next.success = run.success
                 /\ next.queue = Tail(run.queue)
                 /\ next.pc = "assign"
           /\ (run.pc = "assign" /\ next.pc = "forManager") =>
                 {next.log[k].incident : k \in DOMAIN next.log}
                     = selectedForRun(run.unassigned, history.config.priorityOrder,
                                      history.config.maxConcurrentAssignments)]_vars

\* the assignment of the first incident threw and the second was attempted
C18_AttemptAfterThrow ==
    /\ Len(history.run.log) = 2
    /\ history.run.log[1].threw
    /\ history.run.log[1].incident # history.run.log[2].incident

\* C19: when fetching managers or incidents fails during a scheduler run,
\* that run ends without assigning, totalErrors and lastError are updated,
\* isRunning stays true and the interval timer stays registered, so that the
\* next tick starts a new run; this holds also when writing the error's
\* audit record fails
C19_FetchFailureEndsRunSchedulerStays ==
    [][LET run == history.run
           next == history'.run
       IN  next.fetchFailed =>
              /\ next.pc # "exited"
              /\ ~(run.fetchFailed /\ Len(next.log) = Len(run.log) + 1)
              /\ (run.pc # "idle" /\ next.pc = "idle") =>
                    /\ history'.runStats.totalErrors > next.errorsBefore
                    /\ history'.runStats.lastError = history'.runStats.totalRuns
                    /\ history'.isRunning
                    /\ history'.schedulerInterval]_vars

\* a run in which a fetch threw has ended and the scheduler is still running
C19_RunEndedAfterFetchFailure ==
    /\ history.run.fetchFailed
    /\ history.run.pc = "idle"
    /\ history.isRunning
    /\ history.schedulerInterval

\* the place of a priority in an order
rank(priorityOrder, priority) ==
    CHOOSE at \in DOMAIN priorityOrder : priorityOrder[at] = priority

\* the attempts made so far for one manager keep priorityOrder and the cap
attemptsKeep(priorityOrder) ==
    history.run.pc = "assign" =>
        LET log == history.run.log
        IN  /\ \A j \in DOMAIN log, k \in DOMAIN log :
                  j < k => rank(priorityOrder, log[j].priority)
                               <= rank(priorityOrder, log[k].priority)
            /\ \A priority \in Range(priorityOrder) :
                  Cardinality({k \in DOMAIN log : log[k].priority = priority})
                      <= history.config.maxConcurrentAssignments

----------------------------------------------------------------------------
(* Status changes a manager asks for *)

C30_FullTeamCanStillComplete ==
    [][\A i \in Incidents, m \in Managers :
          (/\ StatusChange(i, "Completed", m)
           /\ ReadyForCompletion(i, m)
           /\ incidents[i].assigned_at # NullTime
           /\ now - incidents[i].assigned_at >= 60 * 60 * 1000
           /\ memberCount[incidents[i].assigned_team_id] > 0
           /\ userActive(m)) =>
              /\ response'.code = "OK"
              /\ incidents'[i].status = "Completed"]_vars

\* an incident in progress for an hour on a team that is full
C30_InProgressOnFullTeam ==
    \E i \in Incidents :
        /\ incidents[i].status = "In Progress"
        /\ incidents[i].assigned_team_id # Null
        /\ incidents[i].assigned_at # NullTime
        /\ now - incidents[i].assigned_at >= 60 * 60 * 1000
        /\ CardsOf(i) # {}
        /\ LET team == teams[incidents[i].assigned_team_id]
           IN  team.current_capacity >= team.max_capacity


(***************************************************************************)
(* The rate limit on bulk assignment requests                              *)
(* (AssignmentAuthorization.assignmentRateLimit).  history is the global   *)
(* map of the limits together with the log of the admitted requests.       *)
(***************************************************************************)
MaxRequests == 7   \* the requests made in one behaviour

RATE_LIMIT_WINDOW == 5 * 60 * 1000
RATE_LIMIT_MAX_REQUESTS == 5
EMERGENCY_WINDOW == 60 * 1000
EMERGENCY_MAX_REQUESTS == 1

\* the clock readings at which a request arrives: the ends of both windows
\* that open at 0, and the millisecond after each
RateClockTimes ==
    {0, EMERGENCY_WINDOW, EMERGENCY_WINDOW + 1,
     RATE_LIMIT_WINDOW, RATE_LIMIT_WINDOW + 1}

NoLimit == [count |-> 0 - 1, resetTime |-> NullTime,
            emergencyCount |-> 0 - 1, emergencyResetTime |-> NullTime]

\* global.assignmentRateLimits.get(managerId) || { count: 0, ... }
managerLimitOf(limits, managerId, nowMs) ==
    IF limits[managerId] # NoLimit THEN limits[managerId]
    ELSE [count |-> 0, resetTime |-> nowMs + RATE_LIMIT_WINDOW,
          emergencyCount |-> 0, emergencyResetTime |-> nowMs + EMERGENCY_WINDOW]

\* the two window resets
resetWindows(managerLimit, nowMs) ==
    LET main == IF nowMs > managerLimit.resetTime
                THEN [managerLimit EXCEPT !.count = 0,
                                          !.resetTime = nowMs + RATE_LIMIT_WINDOW]
                ELSE managerLimit
    IN IF nowMs > main.emergencyResetTime
       THEN [main EXCEPT !.emergencyCount = 0,
                         !.emergencyResetTime = nowMs + EMERGENCY_WINDOW]
       ELSE main

\* the middleware: the new map and the answer ("OK" when next() is called).
\* A rejected request returns before the map is set, but the resets were
\* made on the object the map holds, so they stay.
assignmentRateLimit(limits, managerId, nowMs, isEmergencyRequest) ==
    LET managerLimit == resetWindows(managerLimitOf(limits, managerId, nowMs), nowMs)
        kept == IF limits[managerId] # NoLimit
                THEN [limits EXCEPT ![managerId] = managerLimit]
                ELSE limits
    IN IF isEmergencyRequest
       THEN IF managerLimit.emergencyCount >= EMERGENCY_MAX_REQUESTS
            THEN [limits |-> kept, code |-> "EMERGENCY_RATE_LIMIT_EXCEEDED"]
            ELSE [limits |-> [limits EXCEPT ![managerId] =
                                 [managerLimit EXCEPT !.emergencyCount = @ + 1]],
                  code |-> "OK"]
       ELSE IF managerLimit.count >= RATE_LIMIT_MAX_REQUESTS
            THEN [limits |-> kept, code |-> "BULK_RATE_LIMIT_EXCEEDED"]
            ELSE [limits |-> [limits EXCEPT ![managerId] =
                                 [managerLimit EXCEPT !.count = @ + 1]],
                  code |-> "OK"]

InitRate ==
    /\ history = [limits |-> [m \in Managers |-> NoLimit],
                  admitted |-> [m \in Managers |-> <<>>],
                  requests |-> 0]
    /\ incidents = [i \in Incidents |-> NoRow]
    /\ jobCards = EmptyBag
    /\ teams = [t \in Teams |-> NewTeam]
    /\ now = 0
    /\ response = [code |-> "OK", fault |-> "none"]
    /\ attempts = [a \in Attempts |-> Idle]

\* a bulk assignment request of a manager reaches the middleware
BulkRequest(managerId, isEmergencyRequest) ==
    /\ history.requests < MaxRequests
    /\ LET r == assignmentRateLimit(history.limits, managerId, now, isEmergencyRequest)
       IN /\ history' =
                [limits |-> r.limits,
                 admitted |->
                    IF r.code = "OK"
                    THEN [history.admitted EXCEPT ![managerId] =
                             Append(@, [time |-> now, emergency |-> isEmergencyRequest])]
                    ELSE history.admitted,
                 requests |-> history.requests + 1]
          /\ Respond(r.code, "none")
    /\ UNCHANGED <<incidents, jobCards, teams, now, attempts>>

\* time passes until the next reading
ClockMoves(t) ==
    /\ t > now
    /\ now' = t
    /\ UNCHANGED <<incidents, jobCards, teams, response, attempts, history>>

NextRate ==
    \/ \E m \in Managers, e \in BOOLEAN : BulkRequest(m, e)
    \/ \E t \in RateClockTimes : ClockMoves(t)

SpecRate == InitRate /\ [][NextRate]_vars

\* the admitted requests of one kind that fall in the period of the given
\* length that starts with the k-th admitted request
admittedWithin(log, k, window) ==
    Cardinality({j \in DOMAIN log :
                    /\ log[j].emergency = log[k].emergency
                    /\ log[j].time >= log[k].time
                    /\ log[j].time - log[k].time < window})

\* C25: per manager at most 5 non-emergency requests are admitted in any
\* 5-minute period and at most 1 emergency request in any 1-minute period; a
\* request answered 429 consumes no quota, and an emergency request leaves the
\* non-emergency count alone.
C25_QuotaInEveryPeriod ==
    [][\A m \in Managers, e \in BOOLEAN :
          BulkRequest(m, e) =>
              /\ \A k \in DOMAIN history'.admitted[m] :
                    admittedWithin(history'.admitted[m], k,
                        IF history'.admitted[m][k].emergency
                        THEN EMERGENCY_WINDOW ELSE RATE_LIMIT_WINDOW)
                    <= (IF history'.admitted[m][k].emergency
                        THEN EMERGENCY_MAX_REQUESTS ELSE RATE_LIMIT_MAX_REQUESTS)
              /\ response'.code # "OK" =>
                    /\ history'.admitted = history.admitted
                    /\ history'.limits[m].count =
                          resetWindows(managerLimitOf(history.limits, m, now), now).count
                    /\ history'.limits[m].emergencyCount =
                          resetWindows(managerLimitOf(history.limits, m, now), now).emergencyCount
              /\ (e /\ response'.code = "OK") =>
                    history'.limits[m].count =
                        resetWindows(managerLimitOf(history.limits, m, now), now).count]_vars

\* a manager whose sixth non-emergency request of a window was turned away
C25_SixthRequestRejected ==
    \E m \in Managers :
        /\ response.code = "BULK_RATE_LIMIT_EXCEEDED"
        /\ history.limits[m].count = RATE_LIMIT_MAX_REQUESTS


(***************************************************************************)
(* The scheduler with manual triggers and cycles that overlap: a cycle     *)
(* awaits the database at every step, and a timer tick or a request that   *)
(* arrives meanwhile begins another cycle.  run is the cycle the event     *)
(* loop serves, other a second cycle in flight.                            *)
(***************************************************************************)
MaxCycles == 3   \* the cycles of one behaviour, the triggered ones included

\* the cooldown of getUnassignedIncidents
CooldownMs == 5 * 60 * 1000

\* req.body.dryRun of POST /scheduling/trigger
DryRunOptions == {"undefined", "true", "false"}

InFlight(run) == run.pc \notin {"idle", "exited"}

\* triggerManualAssignment up to the first await of its cycle; while the
\* scheduler is stopped runScheduledAssignment returns at once, and so does
\* the call, with config.dryRunMode restored
triggerManualAssignment(scheduler, dryRun) ==
    LET originalDryRun == scheduler.config.dryRunMode
        pending == scheduler.other.manual /\ InFlight(scheduler.other)
        noted == [scheduler EXCEPT
                     !.dryRunBefore = IF pending THEN @ ELSE originalDryRun]
        set == IF dryRun # "undefined"
               THEN [noted EXCEPT !.config.dryRunMode = (dryRun = "true")]
               ELSE noted
    IN  IF ~scheduler.isRunning
        THEN [set EXCEPT !.config.dryRunMode = originalDryRun]
        ELSE [beginRun(set) EXCEPT !.run.manual = TRUE,
                                   !.run.originalDryRun = originalDryRun]

\* POST /scheduling/trigger
TriggerManual(dryRun) ==
    /\ history.run.pc = "idle"
    /\ history.isRunning => history.runStats.totalRuns < MaxCycles
    /\ history' = triggerManualAssignment(history, dryRun)
    /\ IF history.isRunning THEN UNCHANGED response ELSE Respond("OK", "none")
    /\ UNCHANGED <<incidents, jobCards, teams, now, attempts>>

\* the event loop turns to the other cycle (or away from the only one)
Switch ==
    /\ history.run # history.other
    /\ InFlight(history.run) \/ InFlight(history.other)
    /\ history.run.pc # "exited" /\ history.other.pc # "exited"
    /\ history' = [history EXCEPT !.run = history.other, !.other = history.run]
    /\ UNCHANGED <<incidents, jobCards, teams, now, response, attempts>>

\* autoAssignAllIncidents with dryRun (POST /automation/preview): for every
\* unassigned incident it calls getAvailableTeams, which writes the counted
\* capacity of the manager's teams
autoAssignAllDryRun(st, m) ==
    IF \E i \in Incidents : /\ st.incidents[i] # NoRow
                            /\ st.incidents[i].status = "verified"
                            /\ st.incidents[i].assigned_team_id = Null
    THEN [st EXCEPT !.teams = reconcile(st.teams, st.jobCards, m)]
    ELSE st

AutoAssignAllDryRun(m) ==
    /\ Commit(autoAssignAllDryRun(Tables, m))
    /\ Respond("OK", "none")
    /\ UNCHANGED <<now, attempts, history>>

\* the database errors of an assignment in these runs: none, or the write of
\* the team's capacity throws
TriggerFailPoints == {"none", "Team.update"}

NextTrigger ==
    \/ \E i \in Reported : Report(i)
    \/ StartScheduling
    \/ StopScheduling
    \/ UpdateConfig(MaxConcurrent, DefaultPriorityOrder)
    \/ TimerFires
    \/ \E dryRun \in DryRunOptions : TriggerManual(dryRun)
    \/ Switch
    \/ \E m \in Managers : AutoAssignAllDryRun(m)
    \/ GetActiveManagers(FALSE)
    \/ ForManager
    \/ GetUnassignedIncidents(FALSE)
    \/ \E fail \in TriggerFailPoints : AssignNext(fail)
    \/ LogManagerResults(FALSE)
    \/ \E fails \in BOOLEAN : CycleCompleted(fails)
    \/ \E fails \in BOOLEAN, exits \in BOOLEAN : LogCycleError(fails, exits)

SpecTrigger == InitSched /\ [][NextTrigger]_vars

\* the scheduler of SpecSched with a clock that moves by the cooldown
NextCooldown ==
    \/ NextSched
    \/ ClockMoves(CooldownMs)

SpecCooldown == InitSched /\ [][NextCooldown]_vars


\* the attempts of a cycle that assigned (or, in dry-run mode, would assign)
assignedIn(attempted) ==
    Cardinality({k \in DOMAIN attempted : attempted[k].assigned})

\* the attempts of a cycle that failed
failedIn(attempted) ==
    Cardinality({k \in DOMAIN attempted : ~attempted[k].assigned})

\* a triggerManualAssignment call is awaiting its cycle
manualPending ==
    \/ history.run.manual /\ InFlight(history.run)
    \/ history.other.manual /\ InFlight(history.other)

\* C21: an incident a cycle has attempted is not attempted again by a cycle
\* that begins after that attempt and less than 5 minutes after it.
C21_NoReattemptWithinCooldown ==
    [][\A fail \in RunFailPoints :
          AssignNext(fail) =>
              LET last == history.attemptedAt[Head(history.run.queue).incident]
              IN  (last # NeverAttempted /\ history.run.number > last.runs) =>
                      history.run.runStartTime - last.time >= CooldownMs]_vars

\* an attempted incident is still unassigned when a later cycle is in flight
C21_AttemptedIncidentStillUnassigned ==
    \E i \in Incidents :
        /\ history.attemptedAt[i] # NeverAttempted
        /\ incidents[i].status = "verified"
        /\ incidents[i].assigned_team_id = Null
        /\ InFlight(history.run)
        /\ history.run.number > history.attemptedAt[i].runs

\* C22: every call of triggerManualAssignment begins one cycle, which it
\* awaits before it answers, whether the interval scheduler runs or not.
C22_TriggerPerformsOneCycle ==
    [][\A dryRun \in DryRunOptions :
          TriggerManual(dryRun) =>
              /\ history'.runStats.totalRuns = history.runStats.totalRuns + 1
              /\ history'.run.manual
              /\ history'.run.pc = "getActiveManagers"
              /\ UNCHANGED response]_vars

\* a triggered cycle is making its attempts
C22_TriggeredCycleInFlight ==
    /\ history.run.manual
    /\ history.run.pc = "assign"
    /\ history.run.queue # <<>>

\* C23: a dry run writes nothing: neither autoAssignAllIncidents with dryRun
\* nor an attempt of a cycle that began in dry-run mode changes an incident,
\* a team or the job cards.
C23_DryRunWritesNothing ==
    [][/\ \A m \in Managers :
             AutoAssignAllDryRun(m) => UNCHANGED <<incidents, jobCards, teams>>
       /\ \A fail \in TriggerFailPoints :
             (AssignNext(fail) /\ history.run.dryRun) =>
                 UNCHANGED <<incidents, jobCards, teams>>]_vars

\* a cycle that began in dry-run mode is about to attempt an incident
C23_DryRunCycleAttempts ==
    /\ history.run.dryRun
    /\ history.run.pc = "assign"
    /\ history.run.queue # <<>>

\* C24: when a cycle completes, totalRuns is one more than before it,
\* totalAssignments has grown by the number of incidents the cycle assigned
\* and totalErrors by the number of its attempts that failed (the cycles in
\* which a fetch or an audit record failed are left aside: their failure is
\* counted as well).
C24_CountersMatchTheCycle ==
    [][(/\ CycleCompleted(FALSE)
        /\ ~history.run.fetchFailed
        /\ ~history.run.logFailed) =>
          /\ history'.runStats.totalRuns = history.run.number
          /\ history'.runStats.totalAssignments =
                history.runStats.totalAssignments + assignedIn(history.run.attempted)
          /\ history'.runStats.totalErrors =
                history.run.errorsBefore + failedIn(history.run.attempted)]_vars

\* a completed cycle that assigned an incident
C24_CycleAssignedAnIncident ==
    /\ history.run.pc = "idle"
    /\ assignedIn(history.run.attempted) > 0

\* C27: isRunning holds exactly when one interval timer is registered, there
\* is never more than one, and startScheduling while running and
\* stopScheduling while stopped change nothing.
C27_RunningIffOneTimer ==
    [][/\ history'.isRunning <=> history'.timers = 1
       /\ history'.timers <= 1
       /\ (StartScheduling /\ history.isRunning) => history' = history
       /\ (StopScheduling /\ ~history.isRunning) => history' = history]_vars

\* the scheduler runs after it was started, stopped and started again
C27_StartedTwice ==
    /\ history.isRunning
    /\ history.timers = 1
    /\ history.runStats.totalRuns = MaxRuns

\* C28: at most one assignment cycle is in flight at any time.
C28_OneCycleAtATime ==
    ~(InFlight(history.run) /\ InFlight(history.other))

\* a cycle is in flight while the interval timer is registered
C28_CycleInFlightWhileTimerRuns ==
    /\ InFlight(history.run)
    /\ history.schedulerInterval

\* C29: once no triggerManualAssignment call is pending, config.dryRunMode
\* is what it was before the first of the pending calls began.
C29_DryRunModeRestored ==
    ~manualPending => history.config.dryRunMode = history.dryRunBefore

\* two triggered cycles are in flight at once
C29_TwoTriggersOverlap ==
    /\ history.run.manual /\ InFlight(history.run)
    /\ history.other.manual /\ InFlight(history.other)

====
